---- MODULE Spec2Model ----
(***************************************************************************)
(* Model of the AWS Signature Version 4 pipeline of src/src/auth.ts.       *)
(*                                                                         *)
(* A JavaScript string is a sequence of tokens.  A character is the token  *)
(* <<c>> with c its UTF-16 code unit (the inputs are ASCII but for a few   *)
(* named characters).  A digest of node's crypto module is one opaque      *)
(* token                                                                   *)
(*    <<0, encoding, function, key, message>>                              *)
(* so that SHA-256 and HMAC-SHA256 are injective symbolic functions: two   *)
(* digests are equal exactly when function, key, message and output        *)
(* encoding are equal.                                                     *)
(***************************************************************************)
EXTENDS Naturals, Integers, Sequences, FiniteSets, TLC

(***************************************************************************)
(* State                                                                   *)
(***************************************************************************)
VARIABLES
  req,     \* the request descriptor of the caller
  base,    \* the headers of the descriptor as the caller first wrote them
  cred,    \* requestDateTime, region, service and the credentials
  value,   \* a header value string
  call,    \* the last invocation on these inputs: operation, arguments, result
  log,     \* the first logCap invocations of the run, with their inputs
  logCap,  \* how many invocations the log keeps
  frames,  \* the invocations of createRequestAuthorization in progress: their
           \* arguments, position and local constants
  hmacs,   \* the Hmac instances bound to kDate, kRegion, kService and kSigning
  sent     \* the requests handed to fetch, in order

vars == <<req, base, cred, value, call, log, logCap, frames, hmacs, sent>>

(***************************************************************************)
(* Strings                                                                 *)
(***************************************************************************)
\* the string whose characters have the given code units
S(codes) == [i \in 1..Len(codes) |-> <<codes[i]>>]

IsChar(t) == Len(t) = 1

NL == S(<<10>>)
EmptyString == <<>>

IsUpper(t) == IsChar(t) /\ t[1] >= 65 /\ t[1] <= 90

\* String.prototype.toLowerCase, on ASCII
toLowerCase(s) == [i \in 1..Len(s) |-> IF IsUpper(s[i]) THEN <<s[i][1] + 32>> ELSE s[i]]

\* String.prototype.toUpperCase, on ASCII
toUpperCase(s) ==
  [i \in 1..Len(s) |->
     IF IsChar(s[i]) /\ s[i][1] >= 97 /\ s[i][1] <= 122 THEN <<s[i][1] - 32>> ELSE s[i]]

\* the characters matched by \s and removed by trim(), within ASCII
IsWhiteSpace(t) == IsChar(t) /\ t[1] \in {9, 10, 11, 12, 13, 32}

\* String.prototype.slice(0, n)
slice0(s, n) == SubSeq(s, 1, IF Len(s) < n THEN Len(s) ELSE n)

RECURSIVE join(_, _)
\* Array.prototype.join(sep)
join(parts, sep) ==
  IF Len(parts) = 0 THEN EmptyString
  ELSE IF Len(parts) = 1 THEN parts[1]
  ELSE parts[1] \o sep \o join(Tail(parts), sep)

RECURSIVE trimStart(_)
trimStart(s) ==
  IF Len(s) > 0 /\ IsWhiteSpace(s[1]) THEN trimStart(Tail(s)) ELSE s

RECURSIVE trimEnd(_)
trimEnd(s) ==
  IF Len(s) > 0 /\ IsWhiteSpace(s[Len(s)]) THEN trimEnd(SubSeq(s, 1, Len(s) - 1)) ELSE s

\* String.prototype.trim
trim(s) == trimEnd(trimStart(s))

RECURSIVE replaceWhiteSpaceRuns(_)
\* String.prototype.replace(/\s+/g, ' '): every maximal run becomes one space
replaceWhiteSpaceRuns(s) ==
  IF Len(s) = 0 THEN EmptyString
  ELSE IF IsWhiteSpace(s[1])
       THEN S(<<32>>) \o replaceWhiteSpaceRuns(trimStart(s))
       ELSE <<s[1]>> \o replaceWhiteSpaceRuns(Tail(s))

(***************************************************************************)
(* Comparators and Array.prototype.sort                                    *)
(***************************************************************************)
RECURSIVE codeUnitCompare(_, _)
\* the default comparison of Array.prototype.sort: by UTF-16 code units
codeUnitCompare(a, b) ==
  IF Len(a) = 0 THEN (IF Len(b) = 0 THEN 0 ELSE -1)
  ELSE IF Len(b) = 0 THEN 1
  ELSE IF a[1][1] < b[1][1] THEN -1
  ELSE IF a[1][1] > b[1][1] THEN 1
  ELSE codeUnitCompare(Tail(a), Tail(b))

\* primary collation weight of an ASCII character in the ICU root collation
\* used by String.prototype.localeCompare: punctuation ('_' before '-')
\* before digits before letters
localeRank(c) ==
  IF c = 95 THEN 1000
  ELSE IF c = 45 THEN 1001
  ELSE IF c >= 48 /\ c <= 57 THEN 2000 + c
  ELSE IF c >= 97 /\ c <= 122 THEN 3000 + 2 * (c - 97)
  ELSE IF c >= 65 /\ c <= 90 THEN 3001 + 2 * (c - 65)
  ELSE c

\* the collation elements of a string: one per base character, with its
\* primary weight (the letter, whatever its case and accent), its secondary
\* weight (1 under a ring above, either precomposed as U+00E5 or written as
\* the combining U+030A after the letter) and its tertiary weight (1 for an
\* upper-case letter).  U+00E5 and a followed by U+030A are canonically
\* equivalent and get the same elements
collationElements(s) ==
  LET at == SelectSeq([i \in 1..Len(s) |-> i], LAMBDA i : s[i][1] # 778)
  IN  [k \in 1..Len(at) |->
         LET i == at[k]
             c == s[i][1]
             letter == IF c = 229 THEN 97 ELSE IF c >= 65 /\ c <= 90 THEN c + 32 ELSE c
         IN  <<localeRank(letter),
               IF c = 229 \/ (i < Len(s) /\ s[i + 1][1] = 778) THEN 1 ELSE 0,
               IF c >= 65 /\ c <= 90 THEN 1 ELSE 0>>]

\* the comparison of two sequences of collation elements at one level
levelCompare(x, y, level) ==
  LET n == IF Len(x) < Len(y) THEN Len(x) ELSE Len(y)
      differ == {i \in 1..n : x[i][level] # y[i][level]}
  IN  IF differ = {}
      THEN (IF Len(x) < Len(y) THEN -1 ELSE IF Len(x) > Len(y) THEN 1 ELSE 0)
      ELSE LET i == CHOOSE d \in differ : \A e \in differ : d <= e
           IN  IF x[i][level] < y[i][level] THEN -1 ELSE 1

\* the primary weight of a character: that of its letter, whatever its case
\* and accent
primaryWeight(c) ==
  localeRank(IF c = 229 THEN 97 ELSE IF c >= 65 /\ c <= 90 THEN c + 32 ELSE c)

RECURSIVE primaryCompare(_, _)
\* the comparison at the primary level, character by character; a combining
\* mark has no primary weight
primaryCompare(a, b) ==
  IF Len(a) > 0 /\ a[1][1] = 778 THEN primaryCompare(Tail(a), b)
  ELSE IF Len(b) > 0 /\ b[1][1] = 778 THEN primaryCompare(a, Tail(b))
  ELSE IF Len(a) = 0 THEN (IF Len(b) = 0 THEN 0 ELSE -1)
  ELSE IF Len(b) = 0 THEN 1
  ELSE IF primaryWeight(a[1][1]) < primaryWeight(b[1][1]) THEN -1
  ELSE IF primaryWeight(a[1][1]) > primaryWeight(b[1][1]) THEN 1
  ELSE primaryCompare(Tail(a), Tail(b))

\* String.prototype.localeCompare: by primary weights, then secondary, then
\* tertiary; 0 for strings with the same elements at the three levels
localeCompare(a, b) ==
  IF primaryCompare(a, b) # 0 THEN primaryCompare(a, b)
  ELSE LET x == collationElements(a)
           y == collationElements(b)
       IN  IF levelCompare(x, y, 2) # 0 THEN levelCompare(x, y, 2)
           ELSE levelCompare(x, y, 3)

\* const caseInsensitiveSort = (a, b) => a.toLowerCase().localeCompare(b.toLowerCase())
caseInsensitiveSort(a, b) == localeCompare(toLowerCase(a), toLowerCase(b))

compare(cmp, a, b) ==
  IF cmp = "caseInsensitiveSort" THEN caseInsensitiveSort(a, b) ELSE codeUnitCompare(a, b)

RECURSIVE insert(_, _, _)
\* x goes after every element that does not compare greater: the sort is stable
insert(cmp, sorted, x) ==
  IF Len(sorted) = 0 THEN <<x>>
  ELSE IF compare(cmp, sorted[1], x) <= 0
       THEN <<sorted[1]>> \o insert(cmp, Tail(sorted), x)
       ELSE <<x>> \o sorted

RECURSIVE sort(_, _)
\* Array.prototype.sort(cmp) on an array of strings (stable)
sort(cmp, arr) ==
  IF Len(arr) = 0 THEN <<>>
  ELSE insert(cmp, sort(cmp, SubSeq(arr, 1, Len(arr) - 1)), arr[Len(arr)])

\* the pieces of s between the occurrences of the separator token
Split(s, sep) ==
  LET at == SelectSeq([i \in 1..Len(s) |-> i], LAMBDA i : s[i] = sep)
      m == Len(at)
  IN  [k \in 1..(m + 1) |->
         SubSeq(s, (IF k = 1 THEN 0 ELSE at[k - 1]) + 1,
                (IF k = m + 1 THEN Len(s) + 1 ELSE at[k]) - 1)]

Lines(s) == Split(s, <<10>>)

(***************************************************************************)
(* Objects and node's crypto module                                        *)
(***************************************************************************)
\* Object.keys(obj): an object literal is the sequence of its entries in
\* insertion order; its keys are pairwise different
keys(obj) == [i \in 1..Len(obj) |-> obj[i].key]

\* obj[key]
get(obj, key) == obj[CHOOSE i \in 1..Len(obj) : obj[i].key = key].value

HasDistinctKeys(obj) == \A i, j \in 1..Len(obj) : obj[i].key = obj[j].key => i = j

\* a header value: a string, or an array of strings
Single(v) == [isArray |-> FALSE, items |-> <<v>>]
Multi(vs) == [isArray |-> TRUE, items |-> vs]

\* createHash(hashAlgorithm).update(data).digest('hex')
sha256Hex(data) == << <<0, "hex", "sha256", EmptyString, data>> >>

\* createHmac(hashAlgorithm, key).update(data): the Hmac instance
createHmac(key, data) == [key |-> key, data |-> data]

\* hmac.digest(): the raw bytes
digest(hmac) == << <<0, "raw", "hmac", hmac.key, hmac.data>> >>

\* hmac.digest('hex')
digestHex(hmac) == << <<0, "hex", "hmac", hmac.key, hmac.data>> >>

(***************************************************************************)
(* src/src/auth.ts                                                         *)
(***************************************************************************)
algorithm == S(<<65, 87, 83, 52, 45, 72, 77, 65, 67, 45, 83, 72, 65, 50, 53, 54>>)

\* the key as written
formatHeaderKey_asWritten(k) == k

formatHeaderKey(k) == toLowerCase(k)

\* the runs collapsed, the ends not trimmed
formatHeaderValue_untrimmed(v) == replaceWhiteSpaceRuns(v)

formatHeaderValue(v) == replaceWhiteSpaceRuns(trim(v))

\* the keys sorted before they are lowercased
createSignedHeaders_sortFirst(headers) ==
  LET sorted == sort("default", keys(headers))
  IN  join([i \in 1..Len(sorted) |-> formatHeaderKey(sorted[i])], S(<<59>>))

\* host is signed whether or not the headers hold it
createSignedHeaders_withHost(headers) ==
  LET lowered == [i \in 1..Len(headers) |-> formatHeaderKey(keys(headers)[i])]
      host == S(<<104, 111, 115, 116>>)
      required == IF \E i \in 1..Len(lowered) : lowered[i] = host
                  THEN lowered ELSE Append(lowered, host)
  IN  join(sort("default", required), S(<<59>>))

createSignedHeaders(headers) ==
  LET lowered == [i \in 1..Len(headers) |-> formatHeaderKey(keys(headers)[i])]
  IN  join(sort("default", lowered), S(<<59>>))

\* the query keys sorted without regard to letter case
canonicalQueryString_caseInsensitive(query) ==
  LET sortedKeys == sort("caseInsensitiveSort", keys(query))
      queryParams == [i \in 1..Len(sortedKeys) |->
                        sortedKeys[i] \o S(<<61>>) \o get(query, sortedKeys[i])]
  IN  join(queryParams, S(<<38>>))

canonicalQueryString(query) ==
  LET sortedKeys == sort("default", keys(query))
      queryParams == [i \in 1..Len(sortedKeys) |->
                        sortedKeys[i] \o S(<<61>>) \o get(query, sortedKeys[i])]
  IN  join(queryParams, S(<<38>>))

formattedHeaderValue(headers, headerKey) ==
  LET headerValue == get(headers, headerKey)
  IN  IF ~headerValue.isArray
      THEN formatHeaderKey(headerKey) \o S(<<58>>) \o formatHeaderValue(headerValue.items[1])
      ELSE join([i \in 1..Len(headerValue.items) |-> formatHeaderValue(headerValue.items[i])],
                S(<<44>>))

\* the header keys in the default, case-sensitive order
canonicalHeaders_defaultSort(headers) ==
  LET sortedKeys == sort("default", keys(headers))
      formattedHeaders == [i \in 1..Len(sortedKeys) |->
                             formattedHeaderValue(headers, sortedKeys[i])]
  IN  join(formattedHeaders, NL) \o NL

canonicalHeaders(headers) ==
  LET sortedKeys == sort("caseInsensitiveSort", keys(headers))
      formattedHeaders == [i \in 1..Len(sortedKeys) |->
                             formattedHeaderValue(headers, sortedKeys[i])]
  IN  join(formattedHeaders, NL) \o NL

\* the payload digested under a key, the empty one
hashRequestPayload_keyed(payload) == digestHex(createHmac(EmptyString, payload))

hashRequestPayload(payload) == sha256Hex(payload)

\* the uri written before the method
createCanonicalRequest_uriFirst(r) ==
  join(<<r.uri,
         r.method,
         canonicalQueryString(r.query),
         canonicalHeaders(r.headers),
         createSignedHeaders(r.headers),
         hashRequestPayload(r.payload)>>, NL)

createCanonicalRequest(r) ==
  join(<<r.method,
         r.uri,
         canonicalQueryString(r.query),
         canonicalHeaders(r.headers),
         createSignedHeaders(r.headers),
         hashRequestPayload(r.payload)>>, NL)

\* one Hash instance kept at module level: update() adds to the data of the
\* call before
createCanonicalRequestHash_sharedHash(canonicalRequest) ==
  IF call.op = "createCanonicalRequestHash"
  THEN sha256Hex(call.args[1] \o canonicalRequest)
  ELSE sha256Hex(canonicalRequest)

createCanonicalRequestHash(canonicalRequest) == sha256Hex(canonicalRequest)

\* the service written before the region
requestScope_serviceFirst(requestDate, region, service) ==
  requestDate \o S(<<47>>) \o service \o S(<<47>>) \o region
    \o S(<<47, 97, 119, 115, 52, 95, 114, 101, 113, 117, 101, 115, 116>>)

requestScope(requestDate, region, service) ==
  requestDate \o S(<<47>>) \o region \o S(<<47>>) \o service
    \o S(<<47, 97, 119, 115, 52, 95, 114, 101, 113, 117, 101, 115, 116>>)

\* no date for a string too short to hold one
extractRequestDate_strict(requestDateTime) ==
  IF Len(requestDateTime) < 8 THEN EmptyString ELSE slice0(requestDateTime, 8)

extractRequestDate(requestDateTime) == slice0(requestDateTime, 8)

createRequestSignable(canonicalRequest, requestDateTime, region, service) ==
  LET credentialScope == requestScope(extractRequestDate(requestDateTime), region, service)
      requestHash == createCanonicalRequestHash(canonicalRequest)
  IN  join(<<algorithm, requestDateTime, credentialScope, requestHash>>, NL)

\* every stage keyed by the hex digest of the stage before
createSigningKeyHmac_hexStages(secretAccessKey, requestDate, region, service) ==
  LET kDate == createHmac(S(<<65, 87, 83, 52>>) \o secretAccessKey, requestDate)
      kRegion == createHmac(digestHex(kDate), region)
      kService == createHmac(digestHex(kRegion), service)
      kSigning == createHmac(digestHex(kService),
                             S(<<97, 119, 115, 52, 95, 114, 101, 113, 117, 101, 115, 116>>))
  IN  kSigning

createSigningKeyHmac(secretAccessKey, requestDate, region, service) ==
  LET kDate == createHmac(S(<<65, 87, 83, 52>>) \o secretAccessKey, requestDate)
      kRegion == createHmac(digest(kDate), region)
      kService == createHmac(digest(kRegion), service)
      kSigning == createHmac(digest(kService),
                             S(<<97, 119, 115, 52, 95, 114, 101, 113, 117, 101, 115, 116>>))
  IN  kSigning

\* the signable string signed with the hex digest of the signing key
createRequestSignature_hexKey(r, c) ==
  LET canonicalRequest == createCanonicalRequest(r)
      requestDate == extractRequestDate(c.requestDateTime)
      requestSigningKey ==
        digestHex(createSigningKeyHmac(c.secretAccessKey, requestDate, c.region, c.service))
      signable == createRequestSignable(canonicalRequest, c.requestDateTime, c.region, c.service)
      signature == digestHex(createHmac(requestSigningKey, signable))
  IN  signature

\* the signing key derived for the whole requestDateTime
createRequestSignature_dateTimeKey(r, c) ==
  LET canonicalRequest == createCanonicalRequest(r)
      requestSigningKey ==
        digest(createSigningKeyHmac(c.secretAccessKey, c.requestDateTime, c.region, c.service))
      signable == createRequestSignable(canonicalRequest, c.requestDateTime, c.region, c.service)
      signature == digestHex(createHmac(requestSigningKey, signable))
  IN  signature

createRequestSignature(r, c) ==
  LET canonicalRequest == createCanonicalRequest(r)
      requestDate == extractRequestDate(c.requestDateTime)
      requestSigningKey ==
        digest(createSigningKeyHmac(c.secretAccessKey, requestDate, c.region, c.service))
      signable == createRequestSignable(canonicalRequest, c.requestDateTime, c.region, c.service)
      signature == digestHex(createHmac(requestSigningKey, signable))
  IN  signature

\* the signature written before the signed-header list
createRequestAuthorization_signatureFirst(r, c) ==
  LET requestDate == extractRequestDate(c.requestDateTime)
      requestCredential ==
        c.accessKeyId \o S(<<47>>) \o requestScope(requestDate, c.region, c.service)
      signedHeaders == createSignedHeaders(r.headers)
      signature == createRequestSignature(r, c)
  IN  algorithm
        \o S(<<32, 67, 114, 101, 100, 101, 110, 116, 105, 97, 108, 61>>) \o requestCredential
        \o S(<<44, 32, 83, 105, 103, 110, 97, 116, 117, 114, 101, 61>>) \o signature
        \o S(<<44, 32, 83, 105, 103, 110, 101, 100, 72, 101, 97, 100, 101, 114, 115, 61>>)
        \o signedHeaders

\* the Credential dated with the whole requestDateTime
createRequestAuthorization_fullDate(r, c) ==
  LET requestCredential ==
        c.accessKeyId \o S(<<47>>) \o requestScope(c.requestDateTime, c.region, c.service)
      signedHeaders == createSignedHeaders(r.headers)
      signature == createRequestSignature(r, c)
  IN  algorithm
        \o S(<<32, 67, 114, 101, 100, 101, 110, 116, 105, 97, 108, 61>>) \o requestCredential
        \o S(<<44, 32, 83, 105, 103, 110, 101, 100, 72, 101, 97, 100, 101, 114, 115, 61>>)
        \o signedHeaders
        \o S(<<44, 32, 83, 105, 103, 110, 97, 116, 117, 114, 101, 61>>) \o signature

\* the header names listed as the caller wrote them, not lowercased
createRequestAuthorization_keysAsWritten(r, c) ==
  LET requestDate == extractRequestDate(c.requestDateTime)
      requestCredential ==
        c.accessKeyId \o S(<<47>>) \o requestScope(requestDate, c.region, c.service)
      signedHeaders == join(sort("default", keys(r.headers)), S(<<59>>))
      signature == createRequestSignature(r, c)
  IN  algorithm
        \o S(<<32, 67, 114, 101, 100, 101, 110, 116, 105, 97, 108, 61>>) \o requestCredential
        \o S(<<44, 32, 83, 105, 103, 110, 101, 100, 72, 101, 97, 100, 101, 114, 115, 61>>)
        \o signedHeaders
        \o S(<<44, 32, 83, 105, 103, 110, 97, 116, 117, 114, 101, 61>>) \o signature

createRequestAuthorization(r, c) ==
  LET requestDate == extractRequestDate(c.requestDateTime)
      requestCredential ==
        c.accessKeyId \o S(<<47>>) \o requestScope(requestDate, c.region, c.service)
      signedHeaders == createSignedHeaders(r.headers)
      signature == createRequestSignature(r, c)
  IN  algorithm
        \o S(<<32, 67, 114, 101, 100, 101, 110, 116, 105, 97, 108, 61>>) \o requestCredential
        \o S(<<44, 32, 83, 105, 103, 110, 101, 100, 72, 101, 97, 100, 101, 114, 115, 61>>)
        \o signedHeaders
        \o S(<<44, 32, 83, 105, 103, 110, 97, 116, 117, 114, 101, 61>>) \o signature

(***************************************************************************)
(* The inputs of the callers                                               *)
(***************************************************************************)
MaxHeaders == 2
MaxQuery == 2
MaxValueLen == 4
MaxCalls == 3
MaxInvocations == 2
MaxRequests == 2

\* GET, POST
Methods == {S(<<71, 69, 84>>), S(<<80, 79, 83, 84>>)}
\* "/", "/a"
Uris == {S(<<47>>), S(<<47, 97>>)}
\* "", "{}"
Payloads == {EmptyString, S(<<123, 125>>)}
\* host, Host, x-a, X_a
HeaderKeys == {S(<<104, 111, 115, 116>>), S(<<72, 111, 115, 116>>), S(<<120, 45, 97>>), S(<<88, 95, 97>>)}
\* " a \t b\n", ["a", " b  c"]
HeaderValues == {Single(S(<<32, 97, 32, 9, 32, 98, 10>>)), Multi(<<S(<<97>>), S(<<32, 98, 32, 32, 99>>)>>)}
\* a, B, b
QueryKeys == {S(<<97>>), S(<<66>>), S(<<98>>)}
\* "1", "%20"
QueryValues == {S(<<49>>), S(<<37, 50, 48>>)}
\* the empty string, 20150830T123600Z, 2015, not-a-date
RequestDateTimes == {EmptyString, S(<<50, 48, 49, 53, 48, 56, 51, 48, 84, 49, 50, 51, 54, 48, 48, 90>>), S(<<50, 48, 49, 53>>), S(<<110, 111, 116, 45, 97, 45, 100, 97, 116, 101>>)}
\* us-east-2, logs
Regions == {S(<<117, 115, 45, 101, 97, 115, 116, 45, 50>>), S(<<108, 111, 103, 115>>)}
\* logs, iam
Services == {S(<<108, 111, 103, 115>>), S(<<105, 97, 109>>)}
\* AKID, AKIE
AccessKeyIds == {S(<<65, 75, 73, 68>>), S(<<65, 75, 73, 69>>)}
\* wJal, secr
SecretAccessKeys == {S(<<119, 74, 97, 108>>), S(<<115, 101, 99, 114>>)}
\* space, tab, newline, a, b
ValueAlphabet == {<<32>>, <<9>>, <<10>>, <<97>>, <<98>>}

\* the object literals with at most n entries, keys pairwise different
Objects(ks, vs, n) ==
  {o \in UNION {[1..k -> [key : ks, value : vs]] : k \in 0..n} : HasDistinctKeys(o)}

\* the strings of at most n characters of an alphabet
Strings(alphabet, n) == UNION {[1..k -> alphabet] : k \in 0..n}

DefaultReq ==
  [method |-> S(<<80, 79, 83, 84>>),
   uri |-> S(<<47>>),
   query |-> <<[key |-> S(<<97>>), value |-> S(<<49>>)]>>,
   headers |-> <<[key |-> S(<<104, 111, 115, 116>>), value |-> Single(S(<<104>>))]>>,
   payload |-> S(<<123, 125>>)]

DefaultCred ==
  [requestDateTime |-> S(<<50, 48, 49, 53, 48, 56, 51, 48, 84, 49, 50, 51, 54, 48, 48, 90>>),
   region |-> S(<<117, 115, 45, 101, 97, 115, 116, 45, 50>>),
   service |-> S(<<108, 111, 103, 115>>),
   accessKeyId |-> S(<<65, 75, 73, 68>>),
   secretAccessKey |-> S(<<119, 74, 97, 108>>)]

NoCall == [op |-> "none", args |-> <<>>, result |-> <<>>]

Init ==
  /\ \/ /\ req \in {[DefaultReq EXCEPT !.headers = h] : h \in Objects(HeaderKeys, HeaderValues, MaxHeaders)}
        /\ cred = DefaultCred
        /\ value = EmptyString
     \/ /\ req \in {[DefaultReq EXCEPT !.query = q] : q \in Objects(QueryKeys, QueryValues, MaxQuery)}
        /\ cred = DefaultCred
        /\ value = EmptyString
     \/ /\ req \in {[DefaultReq EXCEPT !.method = m, !.uri = u, !.payload = p] :
                      m \in Methods, u \in Uris, p \in Payloads}
        /\ cred = DefaultCred
        /\ value = EmptyString
     \/ /\ req = DefaultReq
        /\ cred \in [requestDateTime : RequestDateTimes, region : Regions, service : Services,
                     accessKeyId : AccessKeyIds, secretAccessKey : SecretAccessKeys]
        /\ value = EmptyString
  /\ base = req.headers
  /\ call = NoCall
  /\ log = <<>>
  /\ logCap = 0
  /\ frames = <<>>
  /\ hmacs = <<>>
  /\ sent = <<>>

(***************************************************************************)
(* The caller writes a header key in another letter case                   *)
(***************************************************************************)
Recase ==
  \E i \in 1..Len(req.headers) :
    \E k \in {toLowerCase(req.headers[i].key), toUpperCase(req.headers[i].key)} :
      /\ k # req.headers[i].key
      /\ HasDistinctKeys([req.headers EXCEPT ![i].key = k])
      /\ req' = [req EXCEPT !.headers[i].key = k]
      /\ call' = NoCall
      /\ UNCHANGED <<base, cred, value, log, logCap, frames, hmacs, sent>>

(***************************************************************************)
(* The invocations                                                         *)
(***************************************************************************)
Invoke(op, args, result) ==
  /\ call' = [op |-> op, args |-> args, result |-> result]
  /\ log' = IF Len(log) < logCap
            THEN Append(log, [op |-> op, args |-> args, result |-> result,
                              inputs |-> <<req, cred, value>>])
            ELSE log
  /\ UNCHANGED <<req, base, cred, value, logCap, frames, hmacs, sent>>

CallFormatHeaderValue ==
  Invoke("formatHeaderValue", <<value>>, formatHeaderValue(value))

CallCreateCanonicalRequest ==
  Invoke("createCanonicalRequest", <<>>, createCanonicalRequest(req))

CallCreateCanonicalRequestHash ==
  Invoke("createCanonicalRequestHash", <<createCanonicalRequest(req)>>,
         createCanonicalRequestHash(createCanonicalRequest(req)))

CallCreateRequestSignable ==
  \E canonicalRequest \in {createCanonicalRequest(req), req.payload} :
    Invoke("createRequestSignable", <<canonicalRequest>>,
           createRequestSignable(canonicalRequest, cred.requestDateTime, cred.region,
                                 cred.service))

CallCreateSigningKeyHmac ==
  \E requestDate \in {extractRequestDate(cred.requestDateTime)} :
    Invoke("createSigningKeyHmac", <<requestDate>>,
           createSigningKeyHmac(cred.secretAccessKey, requestDate, cred.region, cred.service))

CallCreateRequestSignature ==
  Invoke("createRequestSignature", <<>>, createRequestSignature(req, cred))

CallCreateRequestAuthorization ==
  Invoke("createRequestAuthorization", <<>>, createRequestAuthorization(req, cred))

\* the steps chained by hand, as index.test.ts calls them one by one: the
\* canonical request, the signable string, the signing key for the 8-character
\* date prefix, the final keyed hash, and the authorization string put together
ManualChain ==
  \E canonicalRequest \in {createCanonicalRequest(req)} :
  \E signable \in {createRequestSignable(canonicalRequest, cred.requestDateTime, cred.region,
                              cred.service)} :
  \E lines \in {Lines(canonicalRequest)} :
  LET requestDate == slice0(cred.requestDateTime, 8)
      signingKey ==
        digest(createSigningKeyHmac(cred.secretAccessKey, requestDate, cred.region,
                                    cred.service))
      signature == digestHex(createHmac(signingKey, signable))
      signedHeaders == lines[Len(lines) - 1]
      scope ==
        Lines(signable)[3]
  IN  Invoke("manualChain", <<>>,
             algorithm
               \o S(<<32, 67, 114, 101, 100, 101, 110, 116, 105, 97, 108, 61>>)
               \o cred.accessKeyId \o S(<<47>>) \o scope
               \o S(<<44, 32, 83, 105, 103, 110, 101, 100, 72, 101, 97, 100, 101, 114, 115, 61>>)
               \o signedHeaders
               \o S(<<44, 32, 83, 105, 103, 110, 97, 116, 117, 114, 101, 61>>) \o signature)

Next ==
  \/ Recase
  \/ CallFormatHeaderValue
  \/ CallCreateCanonicalRequest
  \/ CallCreateCanonicalRequestHash
  \/ CallCreateRequestSignable
  \/ CallCreateSigningKeyHmac
  \/ CallCreateRequestSignature
  \/ CallCreateRequestAuthorization
  \/ ManualChain

Spec == Init /\ [][Next]_vars

(***************************************************************************)
(* formatHeaderValue on every string of the value alphabet                 *)
(***************************************************************************)
InitValues ==
  /\ req = DefaultReq
  /\ cred = DefaultCred
  /\ value \in Strings(ValueAlphabet, MaxValueLen)
  /\ base = req.headers
  /\ call = NoCall
  /\ log = <<>>
  /\ logCap = 0
  /\ frames = <<>>
  /\ hmacs = <<>>
  /\ sent = <<>>

NextValues == CallFormatHeaderValue

SpecValues == InitValues /\ [][NextValues]_vars

(***************************************************************************)
(* Runs of invocations on the same inputs, the first MaxCalls of them      *)
(* logged                                                                  *)
(***************************************************************************)
\* POST / with the headers X_a: ["a", " b  c"], host: "h"
TwoHeaderReq ==
  [DefaultReq EXCEPT !.headers =
     <<[key |-> S(<<88, 95, 97>>), value |-> Multi(<<S(<<97>>), S(<<32, 98, 32, 32, 99>>)>>)],
       [key |-> S(<<104, 111, 115, 116>>), value |-> Single(S(<<104>>))]>>]

InitCalls ==
  /\ req \in {DefaultReq, TwoHeaderReq}
  /\ cred \in {DefaultCred,
               [DefaultCred EXCEPT !.requestDateTime = S(<<50, 48, 49, 53>>),
                                   !.secretAccessKey = S(<<115, 101, 99, 114>>)]}
  /\ value = S(<<32, 97, 32, 9, 32, 98, 10>>)
  /\ base = req.headers
  /\ call = NoCall
  /\ log = <<>>
  /\ logCap = MaxCalls
  /\ frames = <<>>
  /\ hmacs = <<>>
  /\ sent = <<>>

NextCalls ==
  \/ CallFormatHeaderValue
  \/ CallCreateCanonicalRequest
  \/ CallCreateCanonicalRequestHash
  \/ CallCreateRequestSignable
  \/ CallCreateSigningKeyHmac
  \/ CallCreateRequestSignature
  \/ CallCreateRequestAuthorization

SpecCalls == InitCalls /\ [][NextCalls]_vars

(***************************************************************************)
(* Invocations of createRequestAuthorization in progress at the same time, *)
(* each advancing one statement of auth.ts at a time                       *)
(***************************************************************************)
\* 2015, secr
OtherCred ==
  [DefaultCred EXCEPT !.requestDateTime = S(<<50, 48, 49, 53>>),
                      !.secretAccessKey = S(<<115, 101, 99, 114>>)]

Arguments == {[req |-> DefaultReq, cred |-> DefaultCred], [req |-> TwoHeaderReq, cred |-> OtherCred]}

NoHmac == createHmac(EmptyString, EmptyString)

\* where invocation i keeps the constants it declares: in its own call
slot_moduleLevel(i) == 1

slot(i) == i

InitInterleaved ==
  /\ req = DefaultReq
  /\ cred = DefaultCred
  /\ value = EmptyString
  /\ base = req.headers
  /\ call = NoCall
  /\ log = <<>>
  /\ logCap = 0
  /\ frames \in [1..MaxInvocations ->
                  [pc : {"start"}, args : Arguments, requestCredential : {EmptyString},
                   signedHeaders : {EmptyString}, canonicalRequest : {EmptyString},
                   requestSigningKey : {EmptyString}, signable : {EmptyString},
                   signature : {EmptyString}, result : {EmptyString}]]
  /\ hmacs = [i \in 1..MaxInvocations |->
               [kDate |-> NoHmac, kRegion |-> NoHmac, kService |-> NoHmac, kSigning |-> NoHmac]]
  /\ sent = <<>>

At(i, pc) == frames[i].pc = pc

Others == UNCHANGED <<req, base, cred, value, call, log, logCap, sent>>

\* auth.ts:266-269
StepCredential ==
  \E i \in 1..MaxInvocations :
    /\ At(i, "start")
    /\ frames' = [frames EXCEPT
         ![i].requestCredential =
            frames[i].args.cred.accessKeyId \o S(<<47>>)
              \o requestScope(extractRequestDate(frames[i].args.cred.requestDateTime),
                              frames[i].args.cred.region, frames[i].args.cred.service),
         ![i].signedHeaders = createSignedHeaders(frames[i].args.req.headers),
         ![i].pc = "canonicalRequest"]
    /\ UNCHANGED hmacs
    /\ Others

\* auth.ts:190
StepCanonicalRequest ==
  \E i \in 1..MaxInvocations :
    /\ At(i, "canonicalRequest")
    /\ frames' = [frames EXCEPT ![i].canonicalRequest = createCanonicalRequest(frames[i].args.req),
                                ![i].pc = "kDate"]
    /\ UNCHANGED hmacs
    /\ Others

\* auth.ts:158
StepKDate ==
  \E i \in 1..MaxInvocations :
    /\ At(i, "kDate")
    /\ hmacs' = [hmacs EXCEPT ![slot(i)].kDate =
                   createHmac(S(<<65, 87, 83, 52>>) \o frames[i].args.cred.secretAccessKey,
                              extractRequestDate(frames[i].args.cred.requestDateTime))]
    /\ frames' = [frames EXCEPT ![i].pc = "kRegion"]
    /\ Others

\* auth.ts:159
StepKRegion ==
  \E i \in 1..MaxInvocations :
    /\ At(i, "kRegion")
    /\ hmacs' = [hmacs EXCEPT ![slot(i)].kRegion =
                   createHmac(digest(hmacs[slot(i)].kDate), frames[i].args.cred.region)]
    /\ frames' = [frames EXCEPT ![i].pc = "kService"]
    /\ Others

\* auth.ts:160
StepKService ==
  \E i \in 1..MaxInvocations :
    /\ At(i, "kService")
    /\ hmacs' = [hmacs EXCEPT ![slot(i)].kService =
                   createHmac(digest(hmacs[slot(i)].kRegion), frames[i].args.cred.service)]
    /\ frames' = [frames EXCEPT ![i].pc = "kSigning"]
    /\ Others

\* auth.ts:161
StepKSigning ==
  \E i \in 1..MaxInvocations :
    /\ At(i, "kSigning")
    /\ hmacs' = [hmacs EXCEPT ![slot(i)].kSigning =
                   createHmac(digest(hmacs[slot(i)].kService),
                              S(<<97, 119, 115, 52, 95, 114, 101, 113, 117, 101, 115, 116>>))]
    /\ frames' = [frames EXCEPT ![i].pc = "requestSigningKey"]
    /\ Others

\* auth.ts:162, 198-203
StepRequestSigningKey ==
  \E i \in 1..MaxInvocations :
    /\ At(i, "requestSigningKey")
    /\ frames' = [frames EXCEPT ![i].requestSigningKey = digest(hmacs[slot(i)].kSigning),
                                ![i].pc = "signable"]
    /\ UNCHANGED hmacs
    /\ Others

\* auth.ts:204
StepSignable ==
  \E i \in 1..MaxInvocations :
    /\ At(i, "signable")
    /\ frames' = [frames EXCEPT
         ![i].signable =
            createRequestSignable(frames[i].canonicalRequest,
                                  frames[i].args.cred.requestDateTime,
                                  frames[i].args.cred.region, frames[i].args.cred.service),
         ![i].pc = "signature"]
    /\ UNCHANGED hmacs
    /\ Others

\* auth.ts:205-206
StepSignature ==
  \E i \in 1..MaxInvocations :
    /\ At(i, "signature")
    /\ frames' = [frames EXCEPT
         ![i].signature = digestHex(createHmac(frames[i].requestSigningKey, frames[i].signable)),
         ![i].pc = "return"]
    /\ UNCHANGED hmacs
    /\ Others

\* auth.ts:282
StepReturn ==
  \E i \in 1..MaxInvocations :
    /\ At(i, "return")
    /\ frames' = [frames EXCEPT
         ![i].result =
            algorithm
              \o S(<<32, 67, 114, 101, 100, 101, 110, 116, 105, 97, 108, 61>>)
              \o frames[i].requestCredential
              \o S(<<44, 32, 83, 105, 103, 110, 101, 100, 72, 101, 97, 100, 101, 114, 115, 61>>)
              \o frames[i].signedHeaders
              \o S(<<44, 32, 83, 105, 103, 110, 97, 116, 117, 114, 101, 61>>)
              \o frames[i].signature,
         ![i].pc = "done"]
    /\ UNCHANGED hmacs
    /\ Others

NextInterleaved ==
  \/ StepCredential
  \/ StepCanonicalRequest
  \/ StepKDate
  \/ StepKRegion
  \/ StepKService
  \/ StepKSigning
  \/ StepRequestSigningKey
  \/ StepSignable
  \/ StepSignature
  \/ StepReturn

SpecInterleaved == InitInterleaved /\ [][NextInterleaved]_vars

(***************************************************************************)
(* src/src/api.ts                                                          *)
(***************************************************************************)
\* a JSON value: a string, a number, an array or an object
JString(s) == [type |-> "string", string |-> s, number |-> 0, items |-> <<>>]
JNumber(n) == [type |-> "number", string |-> EmptyString, number |-> n, items |-> <<>>]
JArray(items) == [type |-> "array", string |-> EmptyString, number |-> 0, items |-> items]
JObject(entries) == [type |-> "object", string |-> EmptyString, number |-> 0, items |-> entries]

RECURSIVE numberToString(_)
\* Number.prototype.toString(), on the natural numbers
numberToString(n) ==
  IF n < 10 THEN S(<<48 + n>>) ELSE numberToString(n \div 10) \o S(<<48 + (n % 10)>>)

\* the quoted form of a string in JSON: '"' and '\' are escaped, a newline
\* is written \n
quote(s) ==
  LET escape(c) ==
        IF c = <<34>> THEN S(<<92, 34>>)
        ELSE IF c = <<92>> THEN S(<<92, 92>>)
        ELSE IF c = <<10>> THEN S(<<92, 110>>)
        ELSE <<c>>
      RECURSIVE escaped(_)
      escaped(rest) == IF rest = <<>> THEN <<>> ELSE escape(rest[1]) \o escaped(Tail(rest))
  IN  S(<<34>>) \o escaped(s) \o S(<<34>>)

RECURSIVE stringify(_)
\* JSON.stringify(value)
stringify(v) ==
  IF v.type = "string" THEN quote(v.string)
  ELSE IF v.type = "number" THEN numberToString(v.number)
  ELSE IF v.type = "array"
       THEN S(<<91>>) \o join([i \in 1..Len(v.items) |-> stringify(v.items[i])], S(<<44>>))
              \o S(<<93>>)
       ELSE S(<<123>>)
              \o join([i \in 1..Len(v.items) |->
                         quote(v.items[i].key) \o S(<<58>>) \o stringify(v.items[i].value)],
                      S(<<44>>))
              \o S(<<125>>)

\* the number of bytes of a character in UTF-8, for the characters of the
\* Basic Multilingual Plane outside the surrogates
utf8Bytes(c) == IF c[1] < 128 THEN 1 ELSE IF c[1] < 2048 THEN 2 ELSE 3

\* the length of the string in UTF-16 code units
byteLength_codeUnits(s) == Len(s)

\* Buffer.byteLength(s, 'utf8'): one element per byte of every character
byteLength(s) ==
  Cardinality({ib \in (1..Len(s)) \X (1..3) : ib[2] <= utf8Bytes(s[ib[1]])})

X_AMZ_TARGET ==
  [DescribeLogStreams |-> S(<<76, 111, 103, 115, 95, 50, 48, 49, 52, 48, 51, 50, 56, 46, 68, 101, 115, 99, 114, 105, 98, 101, 76, 111, 103, 83, 116, 114, 101, 97, 109, 115>>),
   CreateLogStream |-> S(<<76, 111, 103, 115, 95, 50, 48, 49, 52, 48, 51, 50, 56, 46, 67, 114, 101, 97, 116, 101, 76, 111, 103, 83, 116, 114, 101, 97, 109>>),
   CreateLogGroup |-> S(<<76, 111, 103, 115, 95, 50, 48, 49, 52, 48, 51, 50, 56, 46, 67, 114, 101, 97, 116, 101, 76, 111, 103, 71, 114, 111, 117, 112>>),
   PutLogEvents |-> S(<<76, 111, 103, 115, 95, 50, 48, 49, 52, 48, 51, 50, 56, 46, 80, 117, 116, 76, 111, 103, 69, 118, 101, 110, 116, 115>>)]

\* HOST_BY_REGION[region], for the one region it holds: us-east-2
HOST_BY_REGION(region) == S(<<108, 111, 103, 115, 46, 117, 115, 45, 101, 97, 115, 116, 45, 50, 46, 97, 109, 97, 122, 111, 110, 97, 119, 115, 46, 99, 111, 109>>)

service == S(<<108, 111, 103, 115>>)

\* the headers with the date of the moment of sending in place of x-amz-date
fetchHeaders_freshDate(signedHeaders, authorization) ==
  [i \in 1..Len(signedHeaders) |->
     IF signedHeaders[i].key = S(<<120, 45, 97, 109, 122, 45, 100, 97, 116, 101>>)
     THEN [signedHeaders[i] EXCEPT !.value = Single(S(<<50, 48, 49, 53, 48, 56, 51, 48, 84, 49, 50, 51, 54, 48, 49, 90>>))]
     ELSE signedHeaders[i]]
    \o <<[key |-> S(<<65, 117, 116, 104, 111, 114, 105, 122, 97, 116, 105, 111, 110>>), value |-> Single(authorization)]>>

\* { ...signedHeaders, Authorization: authorization }
fetchHeaders(signedHeaders, authorization) ==
  signedHeaders \o <<[key |-> S(<<65, 117, 116, 104, 111, 114, 105, 122, 97, 116, 105, 111, 110>>), value |-> Single(authorization)]>>

\* the body that createLogGroup, createLogStream, putLogEvents and
\* describeLogStreams share: it signs the request and hands it to fetch
ApiRequest(target, payload) ==
  LET host == HOST_BY_REGION(cred.region)
      path == S(<<47>>)
      method == S(<<80, 79, 83, 84>>)
      json == stringify(payload)
      signedHeaders ==
        <<[key |-> S(<<104, 111, 115, 116>>), value |-> Single(host)],
          [key |-> S(<<120, 45, 97, 109, 122, 45, 100, 97, 116, 101>>), value |-> Single(cred.requestDateTime)],
          [key |-> S(<<120, 45, 97, 109, 122, 45, 116, 97, 114, 103, 101, 116>>), value |-> Single(target)],
          [key |-> S(<<97, 99, 99, 101, 112, 116>>), value |-> Single(S(<<97, 112, 112, 108, 105, 99, 97, 116, 105, 111, 110, 47, 106, 115, 111, 110>>))],
          [key |-> S(<<99, 111, 110, 116, 101, 110, 116, 45, 116, 121, 112, 101>>), value |-> Single(S(<<97, 112, 112, 108, 105, 99, 97, 116, 105, 111, 110, 47, 120, 45, 97, 109, 122, 45, 106, 115, 111, 110, 45, 49, 46, 49, 59, 32, 99, 104, 97, 114, 115, 101, 116, 61, 85, 84, 70, 45, 56>>))],
          [key |-> S(<<99, 111, 110, 116, 101, 110, 116, 45, 108, 101, 110, 103, 116, 104>>), value |-> Single(numberToString(byteLength(json)))]>>
      descriptor ==
        [method |-> method, uri |-> path, query |-> <<>>, headers |-> signedHeaders,
         payload |-> json]
      credentials == [cred EXCEPT !.service = service]
      authorization == createRequestAuthorization(descriptor, credentials)
      url == S(<<104, 116, 116, 112, 115, 58, 47, 47>>) \o host \o path
  IN  /\ Len(sent) < MaxRequests
      /\ sent' = Append(sent, [url |-> url, method |-> method, body |-> json,
                               headers |-> fetchHeaders(signedHeaders, authorization)])
      /\ call' = [op |-> "createRequestAuthorization", args |-> <<descriptor, credentials>>,
                  result |-> authorization]
      /\ UNCHANGED <<req, base, cred, value, log, logCap, frames, hmacs>>

\* my-group, "g\é
LogGroupNames == {S(<<109, 121, 45, 103, 114, 111, 117, 112>>), S(<<34, 103, 92, 233>>)}
\* s1
LogStreamNames == {S(<<115, 49>>)}
\* hello, two (newline) lines
Messages == {S(<<104, 101, 108, 108, 111>>), S(<<116, 119, 111, 10, 108, 105, 110, 101, 115>>)}

createLogGroup ==
  \E payload \in
       {JObject(<<[key |-> S(<<108, 111, 103, 71, 114, 111, 117, 112, 78, 97, 109, 101>>), value |-> JString(S(<<109, 121, 45, 103, 114, 111, 117, 112>>))]>>),
        JObject(<<[key |-> S(<<108, 111, 103, 71, 114, 111, 117, 112, 78, 97, 109, 101>>), value |-> JString(S(<<34, 103, 92, 233>>))],
                  [key |-> S(<<116, 97, 103, 115>>),
                   value |-> JObject(<<[key |-> S(<<101, 110, 118>>), value |-> JString(S(<<100, 101, 118>>))]>>)]>>)} :
    ApiRequest(X_AMZ_TARGET.CreateLogGroup, payload)

createLogStream ==
  \E payload \in
       {JObject(<<[key |-> S(<<108, 111, 103, 71, 114, 111, 117, 112, 78, 97, 109, 101>>), value |-> JString(n)],
                  [key |-> S(<<108, 111, 103, 83, 116, 114, 101, 97, 109, 78, 97, 109, 101>>), value |-> JString(s)]>>) :
          n \in LogGroupNames, s \in LogStreamNames} :
    ApiRequest(X_AMZ_TARGET.CreateLogStream, payload)

putLogEvents ==
  \E payload \in
       {JObject(<<[key |-> S(<<108, 111, 103, 69, 118, 101, 110, 116, 115>>),
                   value |-> JArray(<<JObject(<<[key |-> S(<<109, 101, 115, 115, 97, 103, 101>>), value |-> JString(m)],
                                               [key |-> S(<<116, 105, 109, 101, 115, 116, 97, 109, 112>>), value |-> JNumber(1440938160)]>>)>>)],
                  [key |-> S(<<108, 111, 103, 71, 114, 111, 117, 112, 78, 97, 109, 101>>), value |-> JString(S(<<34, 103, 92, 233>>))],
                  [key |-> S(<<108, 111, 103, 83, 116, 114, 101, 97, 109, 78, 97, 109, 101>>), value |-> JString(s)]>>) :
          m \in Messages, s \in LogStreamNames} :
    ApiRequest(X_AMZ_TARGET.PutLogEvents, payload)

describeLogStreams ==
  \E payload \in
       {JObject(<<[key |-> S(<<108, 111, 103, 71, 114, 111, 117, 112, 78, 97, 109, 101>>), value |-> JString(n)]>>) : n \in LogGroupNames} :
    ApiRequest(X_AMZ_TARGET.DescribeLogStreams, payload)

InitApi ==
  /\ req = DefaultReq
  /\ cred \in [requestDateTime : RequestDateTimes, region : {S(<<117, 115, 45, 101, 97, 115, 116, 45, 50>>)},
               service : {service}, accessKeyId : {DefaultCred.accessKeyId},
               secretAccessKey : {DefaultCred.secretAccessKey}]
  /\ value = EmptyString
  /\ base = req.headers
  /\ call = NoCall
  /\ log = <<>>
  /\ logCap = 0
  /\ frames = <<>>
  /\ hmacs = <<>>
  /\ sent = <<>>

NextApi ==
  \/ createLogGroup
  \/ createLogStream
  \/ putLogEvents
  \/ describeLogStreams

SpecApi == InitApi /\ [][NextApi]_vars

(***************************************************************************)
(* SHA-256 (FIPS 180-4), what createHash('sha256') of node's crypto        *)
(* computes, for a message that fits one block of 64 bytes                 *)
(***************************************************************************)
\* a word of 32 bits: its upper and its lower 16 bits
Word(hi, lo) == <<hi, lo>>

\* the exclusive or and the conjunction of two numbers of 4 bits
Xor4(a, b) ==
  ((a + b) % 2) + 2 * (((a \div 2) + (b \div 2)) % 2)
    + 4 * (((a \div 4) + (b \div 4)) % 2) + 8 * (((a \div 8) + (b \div 8)) % 2)
And4(a, b) ==
  ((a % 2) * (b % 2)) + 2 * (((a \div 2) % 2) * ((b \div 2) % 2))
    + 4 * (((a \div 4) % 2) * ((b \div 4) % 2)) + 8 * ((a \div 8) * (b \div 8))

\* and of two numbers of 16 bits
Xor16(a, b) ==
  Xor4(a % 16, b % 16) + 16 * Xor4((a \div 16) % 16, (b \div 16) % 16)
    + 256 * Xor4((a \div 256) % 16, (b \div 256) % 16)
    + 4096 * Xor4(a \div 4096, b \div 4096)
And16(a, b) ==
  And4(a % 16, b % 16) + 16 * And4((a \div 16) % 16, (b \div 16) % 16)
    + 256 * And4((a \div 256) % 16, (b \div 256) % 16)
    + 4096 * And4(a \div 4096, b \div 4096)

Xor(a, b) == <<Xor16(a[1], b[1]), Xor16(a[2], b[2])>>
And(a, b) == <<And16(a[1], b[1]), And16(a[2], b[2])>>
Not(a) == <<65535 - a[1], 65535 - a[2]>>

\* shift right by n < 16 bits
ShR(a, n) ==
  <<a[1] \div (2 ^ n), (a[2] \div (2 ^ n)) + (a[1] % (2 ^ n)) * (2 ^ (16 - n))>>

\* rotate right by n < 32 bits
RotR(a, n) ==
  LET b == IF n < 16 THEN a ELSE <<a[2], a[1]>>
      m == n % 16
  IN  <<(b[1] \div (2 ^ m)) + (b[2] % (2 ^ m)) * (2 ^ (16 - m)),
        (b[2] \div (2 ^ m)) + (b[1] % (2 ^ m)) * (2 ^ (16 - m))>>

\* addition modulo 2^32
Add(a, b) ==
  LET lo == a[2] + b[2]
      hi == a[1] + b[1] + (lo \div 65536)
  IN  <<hi % 65536, lo % 65536>>

Ch(x, y, z) == Xor(And(x, y), And(Not(x), z))
Maj(x, y, z) == Xor(Xor(And(x, y), And(x, z)), And(y, z))
BigSigma0(x) == Xor(Xor(RotR(x, 2), RotR(x, 13)), RotR(x, 22))
BigSigma1(x) == Xor(Xor(RotR(x, 6), RotR(x, 11)), RotR(x, 25))
SmallSigma0(x) == Xor(Xor(RotR(x, 7), RotR(x, 18)), ShR(x, 3))
SmallSigma1(x) == Xor(Xor(RotR(x, 17), RotR(x, 19)), ShR(x, 10))

\* the round constants and the initial hash value
K ==
  <<Word(17034, 12184), Word(28983, 17553), Word(46528, 64463), Word(59829, 56229),
    Word(14678, 49755), Word(23025, 4593), Word(37439, 33444), Word(43804, 24277),
    Word(55303, 43672), Word(4739, 23297), Word(9265, 34238), Word(21772, 32195),
    Word(29374, 23924), Word(32990, 45566), Word(39900, 1703), Word(49563, 61812),
    Word(58523, 27073), Word(61374, 18310), Word(4033, 40390), Word(9228, 41420),
    Word(11753, 11375), Word(19060, 33962), Word(23728, 43484), Word(30457, 35034),
    Word(38974, 20818), Word(43057, 50797), Word(45059, 10184), Word(48985, 32711),
    Word(50912, 3059), Word(54695, 37191), Word(1738, 25425), Word(5161, 10599),
    Word(10167, 2693), Word(11803, 8504), Word(19756, 28156), Word(21304, 3347),
    Word(25866, 29524), Word(30314, 2747), Word(33218, 51502), Word(37490, 11397),
    Word(41663, 59553), Word(43034, 26187), Word(49739, 35696), Word(51052, 20899),
    Word(53650, 59417), Word(54937, 1572), Word(62478, 13701), Word(4202, 41072),
    Word(6564, 49430), Word(7735, 27656), Word(10056, 30540), Word(13488, 48309),
    Word(14620, 3251), Word(20184, 43594), Word(23452, 51791), Word(26670, 28659),
    Word(29839, 33518), Word(30885, 25455), Word(33992, 30740), Word(36039, 520),
    Word(37054, 65530), Word(42064, 27883), Word(48889, 41975), Word(50801, 30962)>>

H0 ==
  <<Word(27145, 58983), Word(47975, 44677), Word(15470, 62322), Word(42319, 62778),
    Word(20750, 21119), Word(39685, 26764), Word(8067, 55723), Word(23520, 52505)>>

\* the message, the byte 0x80, zero bytes, and the length in bits in the
\* last 8 bytes
Pad(bytes) ==
  [i \in 1..64 |->
     IF i <= Len(bytes) THEN bytes[i]
     ELSE IF i = Len(bytes) + 1 THEN 128
     ELSE IF i = 63 THEN (8 * Len(bytes)) \div 256
     ELSE IF i = 64 THEN (8 * Len(bytes)) % 256
     ELSE 0]

RECURSIVE Schedule(_, _)
\* the message schedule W up to its word n, from its words before
Schedule(w, n) ==
  IF Len(w) >= n THEN w
  ELSE LET t == Len(w) + 1
       IN  Schedule(Append(w, Add(Add(SmallSigma1(w[t - 2]), w[t - 7]),
                                  Add(SmallSigma0(w[t - 15]), w[t - 16]))), n)

\* one round on the working variables a..h
Round(v, k, word) ==
  LET t1 == Add(Add(Add(v[8], BigSigma1(v[5])), Add(Ch(v[5], v[6], v[7]), k)), word)
      t2 == Add(BigSigma0(v[1]), Maj(v[1], v[2], v[3]))
  IN  <<Add(t1, t2), v[1], v[2], v[3], Add(v[4], t1), v[5], v[6], v[7]>>

RECURSIVE Rounds(_, _, _, _)
\* the eight working variables after the rounds from..to
Rounds(v, w, from, to) ==
  IF Len(v) # 8 \/ from > to THEN v
  ELSE Rounds(Round(v, K[from], w[from]), w, from + 1, to)

\* the 64 hexadecimal characters of the SHA-256 of a string of at most 55
\* ASCII characters
SHA256Hex(data) ==
  LET block == Pad([i \in 1..Len(data) |-> data[i][1]])
      w16 == [t \in 1..16 |->
                Word(256 * block[4 * t - 3] + block[4 * t - 2],
                     256 * block[4 * t - 1] + block[4 * t])]
      w == Schedule(Schedule(Schedule(Schedule(w16, 28), 40), 52), 64)
      v == Rounds(Rounds(Rounds(Rounds(H0, w, 1, 16), w, 17, 32), w, 33, 48), w, 49, 64)
      h == [i \in 1..8 |-> Add(H0[i], v[i])]
      nibble(i) ==
        LET half == h[((i - 1) \div 8) + 1][(((i - 1) % 8) \div 4) + 1]
        IN  (half \div (16 ^ (3 - ((i - 1) % 4)))) % 16
  IN  [i \in 1..64 |-> IF nibble(i) < 10 THEN <<48 + nibble(i)>> ELSE <<87 + nibble(i)>>]

(***************************************************************************)
(* The same entries inserted in another order                              *)
(***************************************************************************)
\* Host, x-a, U+00E5 (a with ring above), a followed by U+030A (combining
\* ring above)
OrderKeys == {S(<<72, 111, 115, 116>>), S(<<120, 45, 97>>), S(<<229>>), S(<<97, 778>>)}
\* "1", "2"
OrderValues == {Single(S(<<49>>)), Single(S(<<50>>))}
\* "1"
OrderQueryValues == {S(<<49>>)}

InitOrder ==
  /\ req \in {[DefaultReq EXCEPT !.headers = h, !.query = q] :
                h \in Objects(OrderKeys, OrderValues, MaxHeaders),
                q \in Objects(QueryKeys, OrderQueryValues, MaxQuery)}
  /\ cred = DefaultCred
  /\ value = EmptyString
  /\ base = req.headers
  /\ call = NoCall
  /\ log = <<>>
  /\ logCap = 0
  /\ frames = <<>>
  /\ hmacs = <<>>
  /\ sent = <<>>

\* createCanonicalRequest on the descriptor as the caller holds it
CallOnDescriptor ==
  Invoke("createCanonicalRequest", <<req>>, createCanonicalRequest(req))

\* the caller builds the header map and the query map again, inserting the
\* same entries in another order: Object.keys lists them in that order
Reinsert ==
  \E p \in [1..Len(req.headers) -> 1..Len(req.headers)] :
    \E q \in [1..Len(req.query) -> 1..Len(req.query)] :
      LET headers == [i \in 1..Len(req.headers) |-> req.headers[p[i]]]
          query == [i \in 1..Len(req.query) |-> req.query[q[i]]]
      IN  /\ \A i, j \in 1..Len(p) : p[i] = p[j] => i = j
          /\ \A i, j \in 1..Len(q) : q[i] = q[j] => i = j
          /\ <<headers, query>> # <<req.headers, req.query>>
          /\ req' = [req EXCEPT !.headers = headers, !.query = query]
          /\ UNCHANGED <<base, cred, value, call, log, logCap, frames, hmacs, sent>>

NextOrder ==
  \/ CallOnDescriptor
  \/ Reinsert

SpecOrder == InitOrder /\ [][NextOrder]_vars

(***************************************************************************)
(* The arrays and maps behind the operations.  The caller owns the query   *)
(* map, the header map and the arrays that are values of headers; an       *)
(* operation allocates arrays of its own.  Array.prototype.sort writes to  *)
(* the array it is called on; Object.keys, map and the spread of reduce    *)
(* write to a new array                                                    *)
(***************************************************************************)
\* the maps of a descriptor, no array allocated yet
HeapOf(r) == [query |-> r.query, headers |-> r.headers, arrays |-> <<>>]

\* the array that is the value of the header at position i of the map
ValueRef(i) == [kind |-> "value", at |-> i]

Read(heap, ref) ==
  IF ref.kind = "value" THEN heap.headers[ref.at].value.items ELSE heap.arrays[ref.at]

Write(heap, ref, arr) ==
  IF ref.kind = "value"
  THEN [heap EXCEPT !.headers[ref.at].value.items = arr]
  ELSE [heap EXCEPT !.arrays[ref.at] = arr]

Alloc(heap, arr) ==
  [heap |-> [heap EXCEPT !.arrays = Append(@, arr)],
   ref |-> [kind |-> "own", at |-> Len(heap.arrays) + 1]]

\* Object.keys(obj): a new array of the keys in insertion order
ObjectKeys(heap, obj) == Alloc(heap, keys(obj))

\* arr.sort(cmp): sorts the array in place
ArraySort(heap, ref, cmp) == Write(heap, ref, sort(cmp, Read(heap, ref)))

\* the callback of a map, by its name
apply(f, x) == IF f = "formatHeaderKey" THEN formatHeaderKey(x) ELSE formatHeaderValue(x)

\* the mapped elements written back to the array itself
ArrayMap_inPlace(heap, ref, f) ==
  [heap |-> Write(heap, ref, [i \in 1..Len(Read(heap, ref)) |-> apply(f, Read(heap, ref)[i])]),
   ref |-> ref]

\* arr.map(f): a new array of the mapped elements
ArrayMap(heap, ref, f) ==
  Alloc(heap, [i \in 1..Len(Read(heap, ref)) |-> apply(f, Read(heap, ref)[i])])

\* the one element of a set of one element: a value held once it is computed
The(set) == CHOOSE x \in set : TRUE

\* Object.keys(headers).map(formatHeaderKey).sort().join(';')
createSignedHeadersOn(heap) ==
  The({The({The({[heap |-> sorted, result |-> join(Read(sorted, lowered.ref), S(<<59>>))] :
                   sorted \in {ArraySort(lowered.heap, lowered.ref, "default")}}) :
              lowered \in {ArrayMap(listed.heap, listed.ref, "formatHeaderKey")}}) :
         listed \in {ObjectKeys(heap, heap.headers)}})

\* one turn of the reduce over the sorted header keys: a string value is
\* read, an array value is mapped
formattedHeaderOn(heap, headerKey) ==
  LET at == CHOOSE j \in 1..Len(heap.headers) : heap.headers[j].key = headerKey
      headerValue == heap.headers[at].value
  IN  IF ~headerValue.isArray
      THEN [heap |-> heap,
            result |-> formatHeaderKey(headerKey) \o S(<<58>>)
                         \o formatHeaderValue(headerValue.items[1])]
      ELSE The({[heap |-> mapped.heap,
                 result |-> join(Read(mapped.heap, mapped.ref), S(<<44>>))] :
                  mapped \in {ArrayMap(heap, ValueRef(at), "formatHeaderValue")}})

RECURSIVE formattedHeadersOn(_, _, _, _)
\* the reduce over the sorted header keys, from the i-th on
formattedHeadersOn(heap, sortedKeys, i, formattedHeaders) ==
  IF i > Len(sortedKeys) THEN [heap |-> heap, result |-> formattedHeaders]
  ELSE The({formattedHeadersOn(turn.heap, sortedKeys, i + 1,
                               Append(formattedHeaders, turn.result)) :
              turn \in {formattedHeaderOn(heap, sortedKeys[i])}})

\* the canonical query string, from Object.keys(query).sort()
canonicalQueryStringOn(heap) ==
  The({The({[heap |-> sorted,
             result |-> LET sortedKeys == Read(sorted, listed.ref)
                        IN  join([i \in 1..Len(sortedKeys) |->
                                    sortedKeys[i] \o S(<<61>>) \o get(sorted.query, sortedKeys[i])],
                                 S(<<38>>))] :
              sorted \in {ArraySort(listed.heap, listed.ref, "default")}}) :
         listed \in {ObjectKeys(heap, heap.query)}})

\* the canonical headers block, from Object.keys(headers).sort(caseInsensitiveSort)
canonicalHeadersOn(heap) ==
  The({The({The({[heap |-> formatted.heap, result |-> join(formatted.result, NL) \o NL] :
                   formatted \in {formattedHeadersOn(sorted, Read(sorted, listed.ref), 1, <<>>)}}) :
              sorted \in {ArraySort(listed.heap, listed.ref, "caseInsensitiveSort")}}) :
         listed \in {ObjectKeys(heap, heap.headers)}})

createCanonicalRequestOn(heap, r) ==
  The({The({The({[heap |-> signedHeaders.heap,
                  result |-> join(<<r.method,
                                    r.uri,
                                    queryString.result,
                                    headersBlock.result,
                                    signedHeaders.result,
                                    hashRequestPayload(r.payload)>>, NL)] :
                   signedHeaders \in {createSignedHeadersOn(headersBlock.heap)}}) :
              headersBlock \in {canonicalHeadersOn(queryString.heap)}}) :
         queryString \in {canonicalQueryStringOn(heap)}})

createRequestSignatureOn(heap, r, c) ==
  The({LET requestDate == extractRequestDate(c.requestDateTime)
           requestSigningKey ==
             digest(createSigningKeyHmac(c.secretAccessKey, requestDate, c.region, c.service))
           signable ==
             createRequestSignable(canonicalRequest.result, c.requestDateTime, c.region,
                                   c.service)
       IN  [heap |-> canonicalRequest.heap,
            result |-> digestHex(createHmac(requestSigningKey, signable))] :
         canonicalRequest \in {createCanonicalRequestOn(heap, r)}})

createRequestAuthorizationOn(heap, r, c) ==
  The({The({LET requestDate == extractRequestDate(c.requestDateTime)
                requestCredential ==
                  c.accessKeyId \o S(<<47>>) \o requestScope(requestDate, c.region, c.service)
            IN  [heap |-> signature.heap,
                 result |-> algorithm
                              \o S(<<32, 67, 114, 101, 100, 101, 110, 116, 105, 97, 108, 61>>)
                              \o requestCredential
                              \o S(<<44, 32, 83, 105, 103, 110, 101, 100, 72, 101, 97, 100, 101, 114, 115, 61>>)
                              \o signedHeaders.result
                              \o S(<<44, 32, 83, 105, 103, 110, 97, 116, 117, 114, 101, 61>>)
                              \o signature.result] :
              signature \in {createRequestSignatureOn(signedHeaders.heap, r, c)}}) :
         signedHeaders \in {createSignedHeadersOn(heap)}})

\* b, B
ArgumentQueryKeys == {S(<<98>>), S(<<66>>)}

InitArguments ==
  /\ req \in {[DefaultReq EXCEPT !.headers = h, !.query = q] :
                h \in Objects(HeaderKeys, HeaderValues, MaxHeaders),
                q \in Objects(ArgumentQueryKeys, OrderQueryValues, MaxQuery)}
  /\ cred = DefaultCred
  /\ value = EmptyString
  /\ base = req.headers
  /\ call = NoCall
  /\ log = <<>>
  /\ logCap = 0
  /\ frames = <<>>
  /\ hmacs = <<>>
  /\ sent = <<>>

\* the operation runs on the maps of the caller, who holds them afterwards
\* as the operation left them
Returns(op, out) ==
  /\ call' = [op |-> op, args |-> <<req>>, result |-> out.result]
  /\ req' = [req EXCEPT !.query = out.heap.query, !.headers = out.heap.headers]
  /\ UNCHANGED <<base, cred, value, log, logCap, frames, hmacs, sent>>

RunCreateCanonicalRequest ==
  Returns("createCanonicalRequest", createCanonicalRequestOn(HeapOf(req), req))

RunCreateRequestSignature ==
  Returns("createRequestSignature", createRequestSignatureOn(HeapOf(req), req, cred))

RunCreateRequestAuthorization ==
  Returns("createRequestAuthorization", createRequestAuthorizationOn(HeapOf(req), req, cred))

NextArguments ==
  \/ RunCreateCanonicalRequest
  \/ RunCreateRequestSignature
  \/ RunCreateRequestAuthorization

SpecArguments == InitArguments /\ [][NextArguments]_vars

(***************************************************************************)
(* Vocabulary of the properties                                            *)
(***************************************************************************)
\* the pieces of a list: the empty string holds no piece
Pieces(s, sep) == IF s = EmptyString THEN <<>> ELSE Split(s, sep)

\* a is before b in the order of the weights w of their characters
Before(a, b, w(_)) ==
  \/ Len(a) < Len(b) /\ \A i \in 1..Len(a) : a[i] = b[i]
  \/ \E i \in 1..Len(a) :
       /\ i <= Len(b)
       /\ w(a[i][1]) < w(b[i][1])
       /\ \A j \in 1..(i - 1) : a[j] = b[j]

CodePoint(c) == c

CodePointBefore(a, b) == Before(a, b, CodePoint)

LocaleBefore(a, b) == Before(a, b, localeRank)

Bijections(n) == {p \in [1..n -> 1..n] : \A i, j \in 1..n : p[i] = p[j] => i = j}

\* the request descriptor with the header keys as first written
BaseReq == [req EXCEPT !.headers = base]

Called(op) == call.op = op

\* the normalized value of a header: per element, joined with ","
NormalizedValue(v) ==
  join([i \in 1..Len(v.items) |-> formatHeaderValue(v.items[i])], S(<<44>>))

\* the header lines of a canonical request: after method, uri and query,
\* before the empty line, the signed-header list and the payload hash
HeaderLines(canonicalRequest) ==
  LET lines == Lines(canonicalRequest) IN SubSeq(lines, 4, Len(lines) - 3)

(***************************************************************************)
(* Properties                                                              *)
(***************************************************************************)
\* C1: createCanonicalRequest returns the six fields method, uri, canonical
\* query string, canonical headers block, signed-header list and payload
\* hash, in that order, each two separated by one newline; the method is the
\* first line and the uri the second, both as given
C1_SixFieldsInOrder ==
  Called("createCanonicalRequest") =>
    /\ call.result =
         req.method \o NL \o req.uri \o NL \o canonicalQueryString(req.query) \o NL
           \o canonicalHeaders(req.headers) \o NL \o createSignedHeaders(req.headers) \o NL
           \o hashRequestPayload(req.payload)
    /\ Lines(call.result)[1] = req.method
    /\ Lines(call.result)[2] = req.uri
    /\ Lines(call.result)[Len(Lines(call.result))] = sha256Hex(req.payload)

C1_Witness ==
  /\ Called("createCanonicalRequest")
  /\ Len(req.headers) = 2
  /\ Len(req.query) = 1
  /\ req.payload # EmptyString

\* C2: the canonical query string (third line of the canonical request) has
\* one key=value pair per query key, keys and values as given, the keys in
\* ascending code-point order (case-sensitive), joined by "&"; it is empty for
\* an empty query
C2_QueryString ==
  Called("createCanonicalRequest") =>
    LET pairs == Pieces(Lines(call.result)[3], <<38>>)
    IN  /\ Len(pairs) = Len(req.query)
        /\ \E p \in Bijections(Len(req.query)) :
             /\ \A i \in 1..Len(pairs) :
                  pairs[i] = req.query[p[i]].key \o S(<<61>>) \o req.query[p[i]].value
             /\ \A i, j \in 1..Len(pairs) :
                  i < j => CodePointBefore(req.query[p[i]].key, req.query[p[j]].key)
        /\ req.query = <<>> => Lines(call.result)[3] = EmptyString

\* the query holds the keys B and a, in the order a, B
C2_Witness ==
  /\ Called("createCanonicalRequest")
  /\ Len(req.query) = 2
  /\ req.query[1].key = S(<<97>>)
  /\ req.query[2].key = S(<<66>>)
  /\ Lines(call.result)[3][1] = <<66>>

\* C3: for every header, string-valued or array-valued, the canonical headers
\* block holds the line lowercase(key):normalizedValue, the normalized value
\* of an array being its normalized elements joined with ","
C3_EveryHeaderHasKeyedLine ==
  Called("createCanonicalRequest") =>
    \A i \in 1..Len(req.headers) :
      \E j \in 1..Len(HeaderLines(call.result)) :
        HeaderLines(call.result)[j] =
          toLowerCase(req.headers[i].key) \o S(<<58>>) \o NormalizedValue(req.headers[i].value)

\* the line of header i, as the block orders the headers by permutation p
IsLineOf(line, h) ==
  IF h.value.isArray
  THEN line \in {NormalizedValue(h.value),
                 toLowerCase(h.key) \o S(<<58>>) \o NormalizedValue(h.value)}
  ELSE line = toLowerCase(h.key) \o S(<<58>>) \o NormalizedValue(h.value)

C5_SignedHeaders ==
  Called("createCanonicalRequest") =>
    LET lines == Lines(call.result)
        names == Pieces(lines[Len(lines) - 1], <<59>>)
        n == Len(req.headers)
    IN  /\ Len(names) = n
        /\ \E p \in Bijections(n) :
             \A i \in 1..n : names[i] = toLowerCase(req.headers[p[i]].key)
        /\ \A i, j \in 1..n : i < j => ~CodePointBefore(names[j], names[i])

\* the headers are written as X_a, host: the list is host;x_a
C5_Witness ==
  /\ Called("createCanonicalRequest")
  /\ Len(req.headers) = 2
  /\ req.headers[1].key = S(<<88, 95, 97>>)
  /\ req.headers[2].key = S(<<104, 111, 115, 116>>)
  /\ Lines(call.result)[Len(Lines(call.result)) - 1] =
       S(<<104, 111, 115, 116, 59, 120, 95, 97>>)

Visible(s) == SelectSeq(s, LAMBDA c : ~IsWhiteSpace(c))

\* the index in s of its k-th character that is not whitespace
VisibleAt(s, k) ==
  CHOOSE i \in 1..Len(s) :
    ~IsWhiteSpace(s[i]) /\ Cardinality({j \in 1..i : ~IsWhiteSpace(s[j])}) = k

\* C6: formatHeaderValue keeps the characters that are not whitespace, in
\* order; it leaves no whitespace at either end, writes one space exactly
\* where the value had a run of whitespace between two such characters, and so
\* leaves no newline or tab and no two adjacent whitespace characters;
\* a normalized value is left unchanged
C6_NormalizedValue ==
  Called("formatHeaderValue") =>
    LET v == call.args[1]
        r == call.result
    IN  /\ Visible(r) = Visible(v)
        /\ \A i \in 1..Len(r) :
             IsWhiteSpace(r[i]) =>
               /\ r[i] = <<32>>
               /\ i > 1 /\ i < Len(r)
               /\ ~IsWhiteSpace(r[i - 1]) /\ ~IsWhiteSpace(r[i + 1])
        /\ \A k \in 1..(Len(Visible(v)) - 1) :
             (VisibleAt(r, k + 1) - VisibleAt(r, k) > 1)
               <=> (VisibleAt(v, k + 1) - VisibleAt(v, k) > 1)
        /\ \A i \in 1..Len(r) : r[i] # <<10>>
        /\ formatHeaderValue(r) = r

\* a value with whitespace at both ends and a run of two inside
C6_Witness ==
  /\ Called("formatHeaderValue")
  /\ Len(call.args[1]) = 4
  /\ IsWhiteSpace(call.args[1][1])
  /\ call.args[1][2] = <<10>>
  /\ call.args[1][4] = <<9>>
  /\ call.result = S(<<97>>)

\* a value with a run of tab and newline between two letters
C6_WitnessRun ==
  /\ Called("formatHeaderValue")
  /\ call.args[1] = S(<<97, 9, 10, 98>>)
  /\ call.result = S(<<97, 32, 98>>)

\* C7: after header keys are rewritten in another letter case (values, order
\* and all other fields kept), createCanonicalRequest (with its signed-header
\* list), createRequestSignature and createRequestAuthorization return what
\* they return for the descriptor as first written
C7_HeaderKeyCase ==
  /\ Called("createCanonicalRequest") =>
       /\ call.result = createCanonicalRequest(BaseReq)
       /\ Lines(call.result)[Len(Lines(call.result)) - 1] = createSignedHeaders(base)
  /\ Called("createRequestSignature") => call.result = createRequestSignature(BaseReq, cred)
  /\ Called("createRequestAuthorization") =>
       call.result = createRequestAuthorization(BaseReq, cred)

C7_Witness ==
  /\ Called("createRequestSignature")
  /\ Len(req.headers) = 2
  /\ \A i \in 1..2 : req.headers[i].key # base[i].key
  /\ \E i \in 1..2 : req.headers[i].key # toLowerCase(req.headers[i].key)

\* the keyed hash of a message: its raw bytes, and their hex encoding
KeyedHash(key, message) == << <<0, "raw", "hmac", key, message>> >>

Hex(bytes) == << [bytes[1] EXCEPT ![2] = "hex"] >>

\* aws4_request
Terminator == S(<<97, 119, 115, 52, 95, 114, 101, 113, 117, 101, 115, 116>>)

\* C8: createRequestSignable returns four lines: AWS4-HMAC-SHA256, the
\* requestDateTime as given, the credential scope
\* <first 8 characters of requestDateTime>/<region>/<service>/aws4_request,
\* and the hash of the canonical request
C8_Signable ==
  Called("createRequestSignable") =>
    LET lines == Lines(call.result)
        dt == cred.requestDateTime
        date == [i \in 1..(IF Len(dt) < 8 THEN Len(dt) ELSE 8) |-> dt[i]]
    IN  /\ Len(lines) = 4
        /\ lines[1] = S(<<65, 87, 83, 52, 45, 72, 77, 65, 67, 45, 83, 72, 65, 50, 53, 54>>)
        /\ lines[2] = dt
        /\ lines[3] = date \o S(<<47>>) \o cred.region \o S(<<47>>) \o cred.service
                        \o S(<<47>>) \o Terminator
        /\ lines[4] = << <<0, "hex", "sha256", EmptyString, call.args[1]>> >>

\* a 16-character requestDateTime, region and service different
C8_Witness ==
  /\ Called("createRequestSignable")
  /\ Len(cred.requestDateTime) = 16
  /\ cred.region # cred.service
  /\ call.args[1] = createCanonicalRequest(req)
  /\ Len(Lines(call.result)[3]) = 8 + 1 + Len(cred.region) + 1 + Len(cred.service) + 13

\* C9: the signing key of createSigningKeyHmac is
\* keyedHash(keyedHash(keyedHash(keyedHash("AWS4" + secretKey, date), region),
\* service), "aws4_request"), every stage keyed by the raw bytes of the
\* stage before
C9_SigningKey ==
  Called("createSigningKeyHmac") =>
    digest(call.result) =
      KeyedHash(KeyedHash(KeyedHash(KeyedHash(S(<<65, 87, 83, 52>>) \o cred.secretAccessKey,
                                              call.args[1]),
                                    cred.region),
                          cred.service),
                Terminator)

\* date, region and service pairwise different
C9_Witness ==
  /\ Called("createSigningKeyHmac")
  /\ call.args[1] = S(<<50, 48, 49, 53, 48, 56, 51, 48>>)
  /\ cred.region # cred.service
  /\ cred.secretAccessKey # DefaultCred.secretAccessKey

\* C10: createRequestSignature returns the hex encoding of the keyed hash of
\* the signable string of the descriptor's canonical request, keyed by the
\* raw bytes of the derived signing key, not by their hex encoding
C10_Signature ==
  Called("createRequestSignature") =>
    LET signingKey ==
          digest(createSigningKeyHmac(cred.secretAccessKey,
                                      extractRequestDate(cred.requestDateTime),
                                      cred.region, cred.service))
        signable ==
          createRequestSignable(createCanonicalRequest(req), cred.requestDateTime,
                                cred.region, cred.service)
    IN  /\ call.result = Hex(KeyedHash(signingKey, signable))
        /\ call.result # Hex(KeyedHash(Hex(signingKey), signable))

C10_Witness ==
  /\ Called("createRequestSignature")
  /\ cred.secretAccessKey # DefaultCred.secretAccessKey
  /\ cred.region # DefaultCred.region

\* the first n characters of s, all of s when it is shorter
Prefix(s, n) == [i \in 1..(IF Len(s) < n THEN Len(s) ELSE n) |-> s[i]]

\* "AWS4-HMAC-SHA256 Credential="
CredentialLabel ==
  S(<<65, 87, 83, 52, 45, 72, 77, 65, 67, 45, 83, 72, 65, 50, 53, 54, 32,
      67, 114, 101, 100, 101, 110, 116, 105, 97, 108, 61>>)

\* ", SignedHeaders="
SignedHeadersLabel ==
  S(<<44, 32, 83, 105, 103, 110, 101, 100, 72, 101, 97, 100, 101, 114, 115, 61>>)

\* ", Signature="
SignatureLabel == S(<<44, 32, 83, 105, 103, 110, 97, 116, 117, 114, 101, 61>>)

\* C11: createRequestAuthorization returns
\* AWS4-HMAC-SHA256 Credential=<accessKeyId>/<date>/<region>/<service>/aws4_request,
\* SignedHeaders=<signed-header list>, Signature=<signature>: the three parts
\* in that order, each two separated by a comma and one space
C11_AuthorizationFormat ==
  Called("createRequestAuthorization") =>
    LET canonical == Lines(createCanonicalRequest(req))
    IN  call.result =
          CredentialLabel \o cred.accessKeyId \o S(<<47>>) \o Prefix(cred.requestDateTime, 8)
            \o S(<<47>>) \o cred.region \o S(<<47>>) \o cred.service \o S(<<47>>) \o Terminator
            \o SignedHeadersLabel \o canonical[Len(canonical) - 1]
            \o SignatureLabel \o createRequestSignature(req, cred)

C11_Witness ==
  /\ Called("createRequestAuthorization")
  /\ Len(req.headers) = 2
  /\ req.headers[1].key = S(<<88, 95, 97>>)

C11_WitnessCredential ==
  /\ Called("createRequestAuthorization")
  /\ cred.accessKeyId # DefaultCred.accessKeyId
  /\ cred.region # cred.service

\* C12: the value put together by chaining createCanonicalRequest,
\* createRequestSignable, createSigningKeyHmac on the 8-character date prefix
\* and the final keyed hash by hand is the value the composite
\* createRequestAuthorization returns for the same inputs
C12_CompositeEqualsChain ==
  Called("manualChain") => call.result = createRequestAuthorization(req, cred)

\* a requestDateTime longer than its date prefix, two headers
C12_Witness ==
  /\ Called("manualChain")
  /\ Len(cred.requestDateTime) > 8
  /\ cred.secretAccessKey # DefaultCred.secretAccessKey

C12_WitnessHeaders ==
  /\ Called("manualChain")
  /\ Len(req.headers) = 2
  /\ req.headers # base

C14_InterleavingFree ==
  \A i \in 1..Len(frames) :
    frames[i].pc = "done" =>
      frames[i].result = createRequestAuthorization(frames[i].args.req, frames[i].args.cred)

\* two invocations with different arguments, run interleaved, have both
\* returned
C14_Witness ==
  /\ frames[1].pc = "done"
  /\ frames[2].pc = "done"
  /\ frames[1].args # frames[2].args

\* the first invocation is between two stages of its key derivation while the
\* second one has bound all of its Hmac instances
C14_WitnessMidway ==
  /\ frames[1].pc = "kRegion"
  /\ frames[2].pc = "signable"
  /\ frames[1].args # frames[2].args

\* the string that a signature of the model signs, and the canonical request
\* whose hash is the fourth line of a signable string
SignedBy(signature) == signature[1][5]
HashedIn(signable) == Lines(signable)[4][1][5]

\* Authorization, x-amz-date, host
AuthorizationKey == S(<<65, 117, 116, 104, 111, 114, 105, 122, 97, 116, 105, 111, 110>>)
DateKey == S(<<120, 45, 97, 109, 122, 45, 100, 97, 116, 101>>)
HostKey == S(<<104, 111, 115, 116>>)

\* the signable string and the canonical request under the signature at the
\* end of the Authorization header of a request handed to fetch
SignableOf(request) ==
  LET authorization == get(request.headers, AuthorizationKey).items[1]
  IN  SignedBy(<<authorization[Len(authorization)]>>)

SignedRequestOf(request) == HashedIn(SignableOf(request))

\* C15: every request that createLogGroup, createLogStream, putLogEvents or
\* describeLogStreams hands to fetch carries the headers given to
\* createRequestAuthorization, key for key and value for value in the same
\* order, followed by the one header Authorization holding the returned
\* authorization; its x-amz-date is the requestDateTime of the signature and
\* its host the signed host.  The canonical request under the signature has
\* one line per sent header other than Authorization, and the signable string
\* carries the sent x-amz-date.
C15_WireHeadersAreSignedHeaders ==
  /\ sent # <<>> =>
       LET request == sent[Len(sent)]
           passed == call.args[1].headers
           n == Len(passed)
       IN  /\ call.op = "createRequestAuthorization"
           /\ Len(request.headers) = n + 1
           /\ \A i \in 1..n : request.headers[i] = passed[i]
           /\ request.headers[n + 1] = [key |-> AuthorizationKey, value |-> Single(call.result)]
           /\ get(request.headers, DateKey) = Single(call.args[2].requestDateTime)
           /\ get(request.headers, HostKey) = get(passed, HostKey)
  /\ \A k \in 1..Len(sent) :
       LET request == sent[k]
           wire == SelectSeq(request.headers, LAMBDA h : h.key # AuthorizationKey)
           canonicalRequest == SignedRequestOf(request)
           lines == HeaderLines(canonicalRequest)
       IN  /\ HasDistinctKeys(request.headers)
           /\ Len(wire) = Len(request.headers) - 1
           /\ Len(lines) = Len(wire)
           /\ \A i \in 1..Len(wire) :
                \E j \in 1..Len(lines) :
                  lines[j] = wire[i].key \o S(<<58>>) \o wire[i].value.items[1]
           /\ Lines(SignableOf(request))[2] = get(request.headers, DateKey).items[1]
           /\ Lines(canonicalRequest)[Len(Lines(canonicalRequest))] = sha256Hex(request.body)

\* two requests were sent, by different operations, the second with a
\* payload holding a character of two bytes
C15_Witness ==
  /\ Len(sent) = 2
  /\ get(sent[1].headers, S(<<120, 45, 97, 109, 122, 45, 116, 97, 114, 103, 101, 116>>)) # get(sent[2].headers, S(<<120, 45, 97, 109, 122, 45, 116, 97, 114, 103, 101, 116>>))
  /\ byteLength(sent[2].body) > Len(sent[2].body)
  /\ Called("createRequestAuthorization")

\* the headers have an entry whose key is host in some letter case
HasHost(headers) == \E i \in 1..Len(headers) : toLowerCase(headers[i].key) = HostKey

\* the names of the signed-header list of a canonical request
SignedNames(canonicalRequest) ==
  LET lines == Lines(canonicalRequest) IN Pieces(lines[Len(lines) - 1], <<59>>)

\* "host:"
IsHostLine(line) == Prefix(line, 5) = HostKey \o S(<<58>>)

\* the canonical request has the six fields and names no host
LacksHost(canonicalRequest, r) ==
  LET lines == Lines(canonicalRequest)
      n == Len(r.headers)
  IN  /\ Len(lines) = 6 + (IF n = 0 THEN 1 ELSE n)
      /\ lines[1] = r.method
      /\ lines[2] = r.uri
      /\ lines[3] = canonicalQueryString(r.query)
      /\ lines[Len(lines) - 2] = EmptyString
      /\ lines[Len(lines)] = sha256Hex(r.payload)
      /\ \A i \in 1..Len(HeaderLines(canonicalRequest)) :
           ~IsHostLine(HeaderLines(canonicalRequest)[i])
      /\ Len(SignedNames(canonicalRequest)) = n
      /\ \A i \in 1..n :
           /\ SignedNames(canonicalRequest)[i] # HostKey
           /\ \E j \in 1..n : SignedNames(canonicalRequest)[i] = toLowerCase(r.headers[j].key)

\* C16: for headers without a host entry createCanonicalRequest,
\* createRequestSignature and createRequestAuthorization return a value of
\* the usual form: a canonical request of six fields, a hexadecimal keyed hash
\* over a signable string of that canonical request, and an authorization
\* value of the three labelled parts; no header line starts with "host:" and
\* the signed-header list has one name per header, none of them host.  Adding
\* a host entry adds the host line and the name host and changes nothing else.
C16_MissingHost ==
  ~HasHost(req.headers) =>
    /\ Called("createCanonicalRequest") =>
         /\ LacksHost(call.result, req)
         /\ \A v \in {u \in HeaderValues : ~u.isArray} :
              LET with == createCanonicalRequest(
                            [req EXCEPT !.headers = Append(@, [key |-> HostKey, value |-> v])])
              IN  /\ SelectSeq(HeaderLines(with), LAMBDA l : ~IsHostLine(l))
                       = (IF req.headers = <<>> THEN <<>> ELSE HeaderLines(call.result))
                  /\ SelectSeq(SignedNames(with), LAMBDA l : l # HostKey)
                       = SignedNames(call.result)
    /\ Called("createRequestSignature") =>
         /\ Len(call.result) = 1
         /\ call.result[1][2] = "hex"
         /\ call.result[1][3] = "hmac"
         /\ Lines(SignedBy(call.result))[1] = algorithm
         /\ LacksHost(HashedIn(SignedBy(call.result)), req)
    /\ Called("createRequestAuthorization") =>
         \E names \in [1..Len(req.headers) -> {toLowerCase(k) : k \in HeaderKeys} \ {HostKey}] :
           \E signature \in {<<call.result[Len(call.result)]>>} :
             /\ call.result =
                  CredentialLabel \o cred.accessKeyId \o S(<<47>>)
                    \o Prefix(cred.requestDateTime, 8) \o S(<<47>>) \o cred.region
                    \o S(<<47>>) \o cred.service \o S(<<47>>) \o Terminator
                    \o SignedHeadersLabel \o join(names, S(<<59>>))
                    \o SignatureLabel \o signature
             /\ signature[1][2] = "hex"
             /\ signature[1][3] = "hmac"
             /\ LacksHost(HashedIn(SignedBy(signature)), req)
             /\ SignedNames(HashedIn(SignedBy(signature))) = names

\* createRequestAuthorization was called with the two headers x-a and X_a
\* and no host
C16_Witness ==
  /\ Called("createRequestAuthorization")
  /\ ~HasHost(req.headers)
  /\ Len(req.headers) = 2

\* createCanonicalRequest was called with an empty headers map
C16_WitnessEmpty ==
  /\ Called("createCanonicalRequest")
  /\ req.headers = <<>>

\* createRequestSignature was called with one header that is not host
C16_WitnessSignature ==
  /\ Called("createRequestSignature")
  /\ ~HasHost(req.headers)
  /\ Len(req.headers) = 1

\* the signable string that the last call returned or signed
Signables ==
  IF Called("createRequestSignable") THEN {call.result}
  ELSE IF Called("createRequestSignature") THEN {SignedBy(call.result)}
  ELSE IF Called("createRequestAuthorization")
       THEN {SignedBy(<<call.result[Len(call.result)]>>)}
       ELSE {}

\* C17: whatever string requestDateTime is (of the usual form, not a date at
\* all, shorter than 8 characters, empty), the signable string has four
\* lines, the second is requestDateTime character for character, and the
\* date of the credential scope (the part of the third line before the first
\* "/") is the first 8 characters of requestDateTime, or all of it when it
\* has fewer
C17_DatePrefix ==
  \A signable \in Signables :
    LET lines == Lines(signable)
        dt == cred.requestDateTime
        scope == Split(lines[3], <<47>>)
    IN  /\ Len(lines) = 4
        /\ lines[2] = dt
        /\ Len(scope) = 4
        /\ IF Len(dt) < 8 THEN scope[1] = dt
           ELSE /\ Len(scope[1]) = 8
                /\ \A i \in 1..8 : scope[1][i] = dt[i]

\* createRequestSignable was called with the requestDateTime 2015
C17_Witness ==
  /\ Called("createRequestSignable")
  /\ Len(cred.requestDateTime) \in 1..7

\* createRequestAuthorization was called with the requestDateTime not-a-date
C17_WitnessMalformed ==
  /\ Called("createRequestAuthorization")
  /\ Len(cred.requestDateTime) = 10

\* createRequestSignature was called with an empty requestDateTime
C17_WitnessEmpty ==
  /\ Called("createRequestSignature")
  /\ cred.requestDateTime = EmptyString

\* e3b0c44298fc1c149afbf4c8996fb92427ae41e4649b934ca495991b7852b855
EmptyPayloadHash ==
  S(<<101, 51, 98, 48, 99, 52, 52, 50, 57, 56, 102, 99, 49, 99, 49, 52,
    57, 97, 102, 98, 102, 52, 99, 56, 57, 57, 54, 102, 98, 57, 50, 52,
    50, 55, 97, 101, 52, 49, 101, 52, 54, 52, 57, 98, 57, 51, 52, 99,
    97, 52, 57, 53, 57, 57, 49, 98, 55, 56, 53, 50, 98, 56, 53, 53>>)

\* the strings at hand in a state
StringsAtHand ==
  {req.payload, req.method, req.uri, value, cred.requestDateTime, EmptyString,
   createCanonicalRequest(req)}

\* C18: for an empty payload the last line of the canonical request is the
\* hexadecimal SHA-256 digest of the empty string, which is
\* e3b0c44298fc1c149afbf4c8996fb92427ae41e4649b934ca495991b7852b855; and
\* hashRequestPayload and createCanonicalRequestHash return the same value
\* for the same string: the unkeyed hexadecimal SHA-256 digest of it
C18_EmptyPayloadHash ==
  /\ (Called("createCanonicalRequest") /\ req.payload = EmptyString) =>
       LET lines == Lines(call.result)
           last == lines[Len(lines)]
       IN  /\ Len(last) = 1
           /\ last[1][2] = "hex"
           /\ last[1][3] = "sha256"
           /\ last[1][4] = EmptyString
           /\ SHA256Hex(last[1][5]) = EmptyPayloadHash
  /\ \A x \in StringsAtHand :
       /\ hashRequestPayload(x) = createCanonicalRequestHash(x)
       /\ hashRequestPayload(x)[1][3] = "sha256"
  /\ Called("createCanonicalRequest") =>
       Lines(call.result)[Len(Lines(call.result))] = createCanonicalRequestHash(req.payload)
  /\ Called("createCanonicalRequestHash") => call.result = hashRequestPayload(call.args[1])

\* createCanonicalRequest was called with an empty payload and a method
\* other than POST
C18_Witness ==
  /\ Called("createCanonicalRequest")
  /\ req.payload = EmptyString
  /\ req.method # DefaultReq.method

\* createCanonicalRequestHash was called on a canonical request
C18_WitnessHash ==
  /\ Called("createCanonicalRequestHash")
  /\ Len(Lines(call.args[1])) >= 7

\* C19: the header names of the canonical headers block, line by line, are
\* the names of the signed-header list, one by one: one arrangement of the
\* headers gives both the lines of the block and the names of the list
C19_SortsAgree ==
  Called("createCanonicalRequest") =>
    LET n == Len(req.headers)
        lines == HeaderLines(call.result)
        names == SignedNames(call.result)
    IN  n > 0 =>
          /\ Len(lines) = n
          /\ Len(names) = n
          /\ \E p \in Bijections(n) :
               \A i \in 1..n :
                 /\ IsLineOf(lines[i], req.headers[p[i]])
                 /\ names[i] = toLowerCase(req.headers[p[i]].key)

\* the messages of the first three key-derivation stages under a signature
DerivationMessages(signature) ==
  LET kSigning == signature[1][4]
      kService == kSigning[1][4]
      kRegion == kService[1][4]
      kDate == kRegion[1][4]
  IN  <<kDate[1][5], kRegion[1][5], kService[1][5]>>

\* the parts of the credential scope on the third line of the signable
\* string under a signature
ScopeOfSignable(signature) == Split(Lines(SignedBy(signature))[3], <<47>>)

\* the parts of the Credential of an authorization value, after the access
\* key id
ScopeOfCredential(authorization) ==
  LET credential == Split(authorization, <<44>>)[1]
  IN  Tail(Split(SubSeq(credential, Len(CredentialLabel) + 1, Len(credential)), <<47>>))

\* C20: in one call of createRequestAuthorization the date that is the
\* message of the first key-derivation stage, the date of the credential
\* scope in the signable string and the date of the Credential are one
\* string, the first 8 characters of requestDateTime; the region (second
\* stage) and the service (third stage) are likewise the same in all three
\* places
C20_OneScope ==
  Called("createRequestAuthorization") =>
    LET signature == <<call.result[Len(call.result)]>>
        derived == DerivationMessages(signature)
        signed == ScopeOfSignable(signature)
        credential == ScopeOfCredential(call.result)
    IN  /\ Len(signed) = 4
        /\ Len(credential) = 4
        /\ \A i \in 1..3 : derived[i] = signed[i] /\ signed[i] = credential[i]
        /\ derived[1] = Prefix(cred.requestDateTime, 8)
        /\ derived[2] = cred.region
        /\ derived[3] = cred.service
        /\ signed[4] = Terminator
        /\ credential[4] = Terminator

\* createRequestAuthorization was called with a requestDateTime of more than
\* 8 characters and a region other than the service
C20_Witness ==
  /\ Called("createRequestAuthorization")
  /\ Len(cred.requestDateTime) > 8
  /\ cred.region # cred.service
  /\ cred.secretAccessKey # DefaultCred.secretAccessKey

\* the positions at which label starts in s
Occurrences(s, label) ==
  {i \in 1..Len(s) : i + Len(label) - 1 <= Len(s) /\ SubSeq(s, i, i + Len(label) - 1) = label}

\* the SignedHeaders part of an authorization: what stands between the first
\* ", SignedHeaders=" and the ", Signature=" before the signature at the end
SignedHeadersPart(authorization) ==
  LET starts == Occurrences(authorization, SignedHeadersLabel)
      first == CHOOSE i \in starts : \A j \in starts : i <= j
  IN  SubSeq(authorization, first + Len(SignedHeadersLabel),
             Len(authorization) - 1 - Len(SignatureLabel))

\* the signed-header field of a canonical request: its line before the last
SignedHeaderField(canonicalRequest) ==
  LET lines == Lines(canonicalRequest) IN lines[Len(lines) - 1]

\* C21: the SignedHeaders part of the value createRequestAuthorization
\* returns is the signed-header field (the fifth field) of the canonical
\* request whose hash is in the signable string under the returned signature
C21_SignedHeadersMatch ==
  Called("createRequestAuthorization") =>
    LET authorization == call.result
        signature == <<authorization[Len(authorization)]>>
        canonicalRequest == HashedIn(SignedBy(signature))
    IN  /\ Occurrences(authorization, SignedHeadersLabel) # {}
        /\ SubSeq(authorization, Len(authorization) - Len(SignatureLabel),
                  Len(authorization) - 1) = SignatureLabel
        /\ canonicalRequest = createCanonicalRequest(req)
        /\ SignedHeadersPart(authorization) = SignedHeaderField(canonicalRequest)

\* two headers written X_a and Host, the key of one rewritten since: the
\* part reads host;x_a
C21_Witness ==
  /\ Called("createRequestAuthorization")
  /\ Len(req.headers) = 2
  /\ req.headers # base
  /\ \E i \in 1..2 : req.headers[i].key # toLowerCase(req.headers[i].key)
  /\ SignedHeadersPart(call.result) = S(<<104, 111, 115, 116, 59, 120, 95, 97>>)

\* no header at all: the part is empty, as the field is
C21_WitnessEmpty ==
  /\ Called("createRequestAuthorization")
  /\ req.headers = <<>>
  /\ SignedHeadersPart(call.result) = EmptyString

\* the two maps hold the same key/value entries, in whatever order
SameEntries(a, b) ==
  /\ Len(a) = Len(b)
  /\ \A i \in 1..Len(a) : \E j \in 1..Len(b) : a[i] = b[j]

\* no two keys of the map are equal when lowercased
LowercaseDistinct(headers) ==
  \A i, j \in 1..Len(headers) :
    i # j => toLowerCase(headers[i].key) # toLowerCase(headers[j].key)

\* C22: for two request descriptors whose header maps and query maps hold
\* the same entries inserted in a different order, no two header keys being
\* equal when lowercased, createCanonicalRequest returns the same string:
\* the value returned for the descriptor of the call is the value for the
\* descriptor as it is inserted now
C22_InsertionOrderFree ==
  (/\ Called("createCanonicalRequest")
   /\ SameEntries(call.args[1].headers, req.headers)
   /\ SameEntries(call.args[1].query, req.query)
   /\ LowercaseDistinct(req.headers)) =>
    createCanonicalRequest(req) = call.result

\* the same, for header keys no two of which compare equal when lowercased
C22_InsertionOrderFreeOfTies ==
  (/\ Called("createCanonicalRequest")
   /\ SameEntries(call.args[1].headers, req.headers)
   /\ SameEntries(call.args[1].query, req.query)
   /\ \A i, j \in 1..Len(req.headers) :
        i # j => caseInsensitiveSort(req.headers[i].key, req.headers[j].key) # 0) =>
    createCanonicalRequest(req) = call.result

\* both maps are inserted in another order than at the call
C22_Reordered ==
  /\ Called("createCanonicalRequest")
  /\ Len(req.headers) = 2
  /\ Len(req.query) = 2
  /\ req.headers[1] = call.args[1].headers[2]
  /\ req.query[1] = call.args[1].query[2]
  /\ LowercaseDistinct(req.headers)
  /\ createCanonicalRequest(req) = call.result

\* how many of the strings of a sequence satisfy a test
Count(seq, Test(_)) == Cardinality({i \in 1..Len(seq) : Test(seq[i])})

\* the lines of the canonical headers block of a request of n headers: the
\* block of no header is its closing newline alone
BlockLines(canonicalRequest, n) ==
  IF n = 0 THEN <<>> ELSE SubSeq(Lines(canonicalRequest), 4, 3 + n)

\* C23: for a header map of n keys the canonical headers block has exactly
\* n header lines and the signed-header list exactly n names; keys that
\* differ only in letter case are not merged: a lowercase name that two
\* keys of the map share names two lines of the block, and every lowercase
\* name stands in the list once per key that has it
C23_NotMerged ==
  Called("createCanonicalRequest") =>
    LET lines == Lines(call.result)
        n == Len(req.headers)
        block == BlockLines(call.result, n)
        names == SignedNames(call.result)
    IN  /\ Len(lines) = 6 + (IF n = 0 THEN 1 ELSE n)
        /\ lines[Len(lines) - 2] = EmptyString
        /\ Len(block) = n
        /\ Len(names) = n
        /\ \A i \in 1..n :
             LET name == toLowerCase(req.headers[i].key)
                 k == Count(req.headers, LAMBDA h : toLowerCase(h.key) = name)
             IN  /\ Count(names, LAMBDA s : s = name) = k
                 /\ k > 1 =>
                      Count(block, LAMBDA line : Prefix(line, Len(name) + 1) = name \o S(<<58>>)) = k

\* the counts alone, and the names of the headers whose value is a string
C23_Counts ==
  Called("createCanonicalRequest") =>
    LET lines == Lines(call.result)
        n == Len(req.headers)
        block == BlockLines(call.result, n)
        names == SignedNames(call.result)
    IN  /\ Len(lines) = 6 + (IF n = 0 THEN 1 ELSE n)
        /\ Len(block) = n
        /\ Len(names) = n
        /\ \A i \in 1..n :
             LET name == toLowerCase(req.headers[i].key)
                 k == Count(req.headers, LAMBDA h : toLowerCase(h.key) = name)
                 strings == Count(req.headers,
                                  LAMBDA h : toLowerCase(h.key) = name /\ ~h.value.isArray)
             IN  /\ Count(names, LAMBDA s : s = name) = k
                 /\ Count(block, LAMBDA line : Prefix(line, Len(name) + 1) = name \o S(<<58>>)) = strings

\* Host and host both in the map, with string values: two lines host:, and
\* the list host;host
C23_TwiceInBoth ==
  /\ Called("createCanonicalRequest")
  /\ Len(req.headers) = 2
  /\ toLowerCase(req.headers[1].key) = toLowerCase(req.headers[2].key)
  /\ \A i \in 1..2 : ~req.headers[i].value.isArray
  /\ SignedNames(call.result) = <<HostKey, HostKey>>
  /\ \A i \in 1..2 : IsHostLine(BlockLines(call.result, 2)[i])

\* the value of the operation named op on a descriptor, by the functions
OutcomeOf(op, r, c) ==
  IF op = "createCanonicalRequest" THEN createCanonicalRequest(r)
  ELSE IF op = "createRequestSignature" THEN createRequestSignature(r, c)
  ELSE createRequestAuthorization(r, c)

\* C24: after createCanonicalRequest, createRequestSignature or
\* createRequestAuthorization returns, the header map of the caller (keys,
\* order of the keys, values, the sequences that are values) and the query
\* map are as they were passed; the value returned is the value for them
C24_ArgumentsUnchanged ==
  call.op \in {"createCanonicalRequest", "createRequestSignature",
               "createRequestAuthorization"} =>
    /\ req.headers = call.args[1].headers
    /\ req.query = call.args[1].query
    /\ req = call.args[1]
    /\ req.headers = base
    /\ call.result = OutcomeOf(call.op, req, cred)

\* createRequestAuthorization returned for two headers and two query keys
\* that the sorts reorder, one header with a sequence whose elements are
\* normalized
C24_Witness ==
  /\ Called("createRequestAuthorization")
  /\ Len(req.headers) = 2
  /\ Len(req.query) = 2
  /\ keys(req.headers) # sort("caseInsensitiveSort", keys(req.headers))
  /\ keys(req.query) # sort("default", keys(req.query))
  /\ \E i \in 1..2 :
       /\ req.headers[i].value.isArray
       /\ \E j \in 1..Len(req.headers[i].value.items) :
            formatHeaderValue(req.headers[i].value.items[j]) # req.headers[i].value.items[j]

C24_WitnessCanonical ==
  /\ Called("createCanonicalRequest")
  /\ Len(req.headers) = 2
  /\ keys(req.headers) # sort("default", [i \in 1..2 |-> toLowerCase(keys(req.headers)[i])])
  /\ \E i \in 1..2 : req.headers[i].value.isArray

C24_WitnessSignature ==
  /\ Called("createRequestSignature")
  /\ Len(req.query) = 2
  /\ keys(req.query) # sort("default", keys(req.query))

\* content-length, x-amz-target
ContentLengthKey == S(<<99, 111, 110, 116, 101, 110, 116, 45, 108, 101, 110, 103, 116, 104>>)
TargetKey == S(<<120, 45, 97, 109, 122, 45, 116, 97, 114, 103, 101, 116>>)

\* the number a string of decimal digits writes
DecimalValue(digits) ==
  LET n == Len(digits)
      power[k \in 0..n] == IF k = 0 THEN 1 ELSE 10 * power[k - 1]
      upTo[i \in 0..n] ==
        IF i = 0 THEN 0 ELSE upTo[i - 1] + (digits[i][1] - 48) * power[n - i]
  IN  upTo[n]

IsDecimal(digits) ==
  /\ Len(digits) > 0
  /\ \A i \in 1..Len(digits) : IsChar(digits[i]) /\ digits[i][1] >= 48 /\ digits[i][1] <= 57
  /\ Len(digits) > 1 => digits[1][1] # 48

\* the number of bytes of the UTF-8 encoding of a string: one per character,
\* one more from U+0080 on, one more from U+0800 on
Utf8Length(s) ==
  Len(s) + Cardinality({i \in 1..Len(s) : s[i][1] >= 128})
         + Cardinality({i \in 1..Len(s) : s[i][1] >= 2048})

\* what C25 says of one request handed to fetch
SentAsSigned(request) ==
  LET canonicalRequest == SignedRequestOf(request)
      lines == Lines(canonicalRequest)
      payloadHash == lines[Len(lines)]
      contentLength == get(request.headers, ContentLengthKey).items[1]
  IN  /\ payloadHash = sha256Hex(request.body)
      /\ payloadHash[1][5] = request.body
      /\ IsDecimal(contentLength)
      /\ DecimalValue(contentLength) = Utf8Length(request.body)
      /\ \E i \in 1..Len(lines) : lines[i] = ContentLengthKey \o S(<<58>>) \o contentLength
      /\ request.method = S(<<80, 79, 83, 84>>)
      /\ lines[1] = S(<<80, 79, 83, 84>>)
      /\ lines[2] = S(<<47>>)
      /\ lines[3] = EmptyString
      /\ request.url = S(<<104, 116, 116, 112, 115, 58, 47, 47>>)
                         \o get(request.headers, HostKey).items[1] \o S(<<47>>)

\* C25: one invocation of createLogGroup, createLogStream, putLogEvents or
\* describeLogStreams hands exactly one request to fetch and leaves the
\* earlier ones alone; the body of every request sent is the string whose
\* hash is the payload hash of the signed canonical request, the signed
\* content-length is the decimal count of the bytes of its UTF-8 encoding,
\* the method is POST, the path "/" and the query empty
C25_OneRequestAsSigned ==
  /\ [](\A k \in 1..Len(sent) : SentAsSigned(sent[k]))
  /\ [][/\ Len(sent') = Len(sent) + 1
        /\ SubSeq(sent', 1, Len(sent)) = sent
        /\ call'.args[1].payload = sent'[Len(sent')].body
        /\ call'.args[1].query = <<>>
        /\ call'.args[1].uri = S(<<47>>)
        /\ call'.args[1].method = S(<<80, 79, 83, 84>>)]_vars

\* putLogEvents sent a body with a character of two bytes and a line feed
\* escaped: the content-length counts more bytes than the body has characters
C25_Witness ==
  /\ Len(sent) = 1
  /\ get(sent[1].headers, TargetKey) = Single(X_AMZ_TARGET.PutLogEvents)
  /\ DecimalValue(get(sent[1].headers, ContentLengthKey).items[1]) > Len(sent[1].body)
  /\ \E i \in 1..(Len(sent[1].body) - 1) :
       sent[1].body[i] = <<92>> /\ sent[1].body[i + 1] = <<110>>

\* each of the four operations sent a request
C25_WitnessCreateLogGroup ==
  /\ Len(sent) = 2
  /\ get(sent[2].headers, TargetKey) = Single(X_AMZ_TARGET.CreateLogGroup)
  /\ get(sent[1].headers, TargetKey) = Single(X_AMZ_TARGET.CreateLogStream)

C25_WitnessDescribeLogStreams ==
  /\ Len(sent) = 2
  /\ get(sent[2].headers, TargetKey) = Single(X_AMZ_TARGET.DescribeLogStreams)
  /\ get(sent[1].headers, TargetKey) = Single(X_AMZ_TARGET.DescribeLogStreams)

====
